---- MODULE Spec2Model ----
(***************************************************************************)
(* LeadBoost SaaS: the lead processing pipeline and its collaborators.     *)
(*                                                                         *)
(* The module holds several specifications over one set of variables:      *)
(*   SpecQuota   the lead creation endpoints and the daily quota gate      *)
(*               (api/endpoints/leads.py, billing/subscription_service.py) *)
(*   SpecScrape  TieredScraper.scrape (scraping/scraper.py)                *)
(*   SpecEnrich  WaterfallEnricher.enrich_lead_data (enricher.py)          *)
(*   SpecPipeline  process_lead_task, the pipeline job (orchestrator.py)   *)
(*   SpecLeads   the pipeline job beside PUT and DELETE /leads/{id}        *)
(*   SpecScore   LeadScoringService.score_lead on a family of leads        *)
(*   SpecMessage Messenger.generate_message on a family of leads           *)
(*   SpecFounded the waterfall on descriptions with a founded year         *)
(*   SpecConfidence  the confidences of the scraping and enrichment        *)
(*               results and of the Lead they are merged into              *)
(*   SpecApi     the lead endpoints called by two organizations, with the  *)
(*               job that POST /leads/{id}/process runs                    *)
(*   SpecAuth    POST /login and POST /refresh (api/endpoints/auth.py,     *)
(*               auth/security.py)                                         *)
(*   SpecBilling register, POST /billing/upgrade, POST /billing/cancel and *)
(*               the billing-provider operations (subscription_service.py, *)
(*               stripe_service.py)                                        *)
(* Each specification leaves the variables of the others at an idle value  *)
(* (no such call in progress).                                             *)
(*                                                                         *)
(* Confidences are Python floats in the source.  They are modelled as      *)
(* integers in thousandths (0.7 is 700).  Where the IEEE-754 sum of the    *)
(* bonuses rounds to the double just above the literal it is compared with *)
(* (0.2+0.1+0.15+0.1+0.15 = 0.7000000000000001 > 0.7) the model adds one   *)
(* thousandth, so that every comparison of the model has the outcome of    *)
(* the comparison in the source.                                           *)
(***************************************************************************)
EXTENDS Integers, Sequences, FiniteSets, TLC

VARIABLES
    \* ---- SpecQuota: lead creation and the quota gate
    dailyLeads,     \* Lead rows with created_at in the current UTC day: Seq of organization_id
    pendingJobs,    \* lead ids handed to background_tasks.add_task(process_lead_async, id)
    req,            \* the request handlers in flight, one record per request
    \* ---- billing: the subscriptions table
    subscriptions,  \* Seq of Subscription rows [organization_id, plan_name, status, cancel_at_period_end]
    calls,          \* the billing operations called so far, one record per call
    \* ---- the API: authentication and the responses of the handlers
    users,          \* the users table: user id -> User row [organization_id, is_active]
    tokens,         \* the JWTs known to the callers (issued by /login, or forged)
    response,       \* the response the caller has not read yet (NoResponse: none)
    \* ---- SpecScrape: one call of TieredScraper.scrape(url)
    site,           \* what the url serves to each tier (the upstream responses)
    scrapePc,       \* position in scrape: "tier1", "tier2", "tier3", "done"
    executed,       \* the tiers run so far, in order
    returned,       \* the ScrapingResult returned (NoResult before the return)
    \* ---- SpecEnrich: one call of WaterfallEnricher.enrich_lead_data(lead, scraped_data)
    enrichIn,       \* the arguments and the reply of the model provider [lead, scraped_data, llm]
    enrichPc,       \* position in enrich_lead_data: "heuristic", "external_api", "llm", "done"
    invoked,        \* the strategies invoked so far, in order
    enriched,       \* the EnrichmentResult returned (NoEnrichment for None)
    \* ---- SpecPipeline: process_lead_task
    leads,          \* the leads table: lead id -> Lead row
    scrapingLogs,   \* the scraping_logs table, in insertion order
    enrichmentLogs, \* the lead_enrichment_logs table, in insertion order
    aiEnv,          \* the plans p whose CAN_USE_AI_<p> environment variable is "true"
    job,            \* the running call of process_lead_task (locals and position)
    lastRun,        \* the most recent finished job: inputs, outcome and the Lead it left
    prevRun         \* the finished job before lastRun

quotaVars == <<dailyLeads, pendingJobs, req>>
billingVars == <<subscriptions, calls>>
apiVars == <<users, tokens, response>>
scrapeVars == <<site, scrapePc, executed, returned>>
enrichVars == <<enrichIn, enrichPc, invoked, enriched>>
pipelineVars == <<leads, scrapingLogs, enrichmentLogs, aiEnv, job, lastRun, prevRun>>

vars == <<quotaVars, billingVars, apiVars, scrapeVars, enrichVars, pipelineVars>>

NULL == "null"

Max(a, b) == IF a >= b THEN a ELSE b
Min(a, b) == IF a <= b THEN a ELSE b

(***************************************************************************)
(* Plans and the quota gate (SubscriptionService)                          *)
(***************************************************************************)
PlanNames == {"free", "pro", "enterprise"}

\* Bounds of the quota model.  The daily caps are read from the environment
\* (FREE_/PRO_/ENTERPRISE_MAX_LEADS_PER_DAY) on every call; the model runs
\* with small configured values.
NumOrgs == 1
NumReqs == 2
MaxUrls == 2
FreeMaxLeadsPerDay == 1
ProMaxLeadsPerDay == 2
EnterpriseMaxLeadsPerDay == 3

Orgs == 1..NumOrgs
Reqs == 1..NumReqs

\* request record of a handler that has not arrived yet
IdleReq == [kind |-> "none", org |-> 0, leadOrg |-> 0, n |-> 0, pc |-> "idle",
            created |-> {}, status |-> 0]

\* db.query(Subscription).filter(organization_id == org).first(): whether a row
\* exists, and the first one
has_subscription(subs, org) == \E i \in DOMAIN subs : subs[i].organization_id = org

first_subscription(subs, org) ==
    subs[CHOOSE i \in DOMAIN subs :
            /\ subs[i].organization_id = org
            /\ \A j \in DOMAIN subs : subs[j].organization_id = org => i <= j]

\* plan_name = subscription.plan_name if subscription else "free"
plan_name_of(subs, org) ==
    IF has_subscription(subs, org) THEN first_subscription(subs, org).plan_name ELSE "free"

\* a Subscription row as assign_plan_to_organization creates it
NewSubscription(org, plan_name) ==
    [organization_id |-> org, plan_name |-> plan_name, status |-> "active",
     cancel_at_period_end |-> FALSE]

\* the subscription tables in which every organization has no row (it is then on
\* the free plan) or one active row
RECURSIVE SubscriptionTables(_)
SubscriptionTables(n) ==
    IF n = 0 THEN {<<>>}
    ELSE LET rest == SubscriptionTables(n - 1) IN
         rest \cup {Append(t, NewSubscription(n, p)) : t \in rest, p \in PlanNames}

\* get_organization_usage: plan limits by plan name
max_leads_per_day(plan_name) ==
    IF plan_name = "pro" THEN ProMaxLeadsPerDay
    ELSE IF plan_name = "enterprise" THEN EnterpriseMaxLeadsPerDay
    ELSE FreeMaxLeadsPerDay

\* _get_daily_usage: count of today's Lead rows of the organization
get_daily_usage(rows, org) == Cardinality({i \in DOMAIN rows : rows[i] = org})

\* get_organization_usage(...).remaining_daily_leads
remaining_daily_leads(rows, plan_name, org) ==
    Max(0, max_leads_per_day(plan_name) - get_daily_usage(rows, org))

\* can_create_lead: usage.can_process_more_today
can_create_lead(rows, plan_name, org) == remaining_daily_leads(rows, plan_name, org) > 0


(***************************************************************************)
(* TieredScraper (scraping/scraper.py)                                     *)
(*                                                                         *)
(* The data dict of a ScrapingResult is a record: keys is the set of dict  *)
(* keys present, the value fields hold the values the pipeline reads (NULL *)
(* for an absent key or a None value), nlinks the length of data["links"], *)
(* linkedin the first link containing "linkedin.com", and props the number *)
(* of business property names found in str(data).lower().  A key without   *)
(* a value field of its own (og_title, og_image, name, ...) is in keys     *)
(* when it is present with a non-empty value.                              *)
(***************************************************************************)
NoData ==
    [keys |-> {}, title |-> NULL, description |-> NULL, og_description |-> NULL,
     meta_description |-> NULL, email |-> NULL, phone |-> NULL, text_content |-> NULL,
     nlinks |-> 0, linkedin |-> NULL, props |-> 0]

\* Python truthiness of a dict value: None and "" are falsy
Truthy(v) == v # NULL /\ v # ""

\* class ScrapingResult
ScrapingResult(success, data, method, confidence) ==
    [success |-> success, data |-> data, method |-> method, confidence |-> confidence]

FailedResult(method, confidence) == ScrapingResult(FALSE, NoData, method, confidence)

NoResult == ScrapingResult(FALSE, NoData, "none", 0)

Bonus(cond, pts) == IF cond THEN pts ELSE 0

\* _calculate_json_ld_confidence.  The sum is taken in the order of the source;
\* its IEEE-754 value is 0.7000000000000001 (above the 0.7 of the gate) exactly when
\* 0.2 for the address is added to a sum of 0.4 and one more 0.1 follows.
calculate_json_ld_confidence(data) ==
    LET beforeAddress ==
            Bonus("name" \in data.keys \/ "legalName" \in data.keys, 300)
            + Bonus("description" \in data.keys, 200)
            + Bonus("url" \in data.keys, 100)
            + Bonus("email" \in data.keys \/ "telephone" \in data.keys, 100)
        afterAddress == Bonus("foundingDate" \in data.keys, 100) + 100 * data.props
        score == beforeAddress + Bonus("address" \in data.keys, 200) + afterAddress
        roundedUp == "address" \in data.keys /\ beforeAddress = 400 /\ afterAddress = 100
    IN  Min(score + Bonus(roundedUp, 1), 1000)

\* _calculate_meta_confidence
calculate_meta_confidence(data) ==
    Min(Bonus("title" \in data.keys /\ Truthy(data.title), 300)
        + Bonus("description" \in data.keys /\ Truthy(data.description), 300)
        + Bonus("og_title" \in data.keys
                \/ ("og_description" \in data.keys /\ Truthy(data.og_description)), 200)
        + Bonus(data.nlinks > 0, 100)
        + Bonus("og_image" \in data.keys, 100),
        1000)

\* mutant of calculate_playwright_confidence: the sum without the cap at 1.0
playwright_confidence_uncapped(data) ==
    300
    + Bonus(Truthy(data.title), 200)
    + Bonus(Truthy(data.meta_description) \/ Truthy(data.og_description), 200)
    + Bonus(Truthy(data.email), 200)
    + Bonus(Truthy(data.phone), 100)
    + Bonus(data.nlinks > 5, 100)
    + Bonus("potential_company_name" \in data.keys, 100)

\* _calculate_playwright_confidence
calculate_playwright_confidence(data) ==
    Min(300
        + Bonus(Truthy(data.title), 200)
        + Bonus(Truthy(data.meta_description) \/ Truthy(data.og_description), 200)
        + Bonus(Truthy(data.email), 200)
        + Bonus(Truthy(data.phone), 100)
        + Bonus(data.nlinks > 5, 100)
        + Bonus("potential_company_name" \in data.keys, 100),
        1000)

\* _extract_json_ld on a response [status, data]
extract_json_ld(resp) ==
    IF resp.status # "ok" \/ resp.data.keys = {}
    THEN FailedResult("json_ld", 0)
    ELSE ScrapingResult(TRUE, resp.data, "json_ld", calculate_json_ld_confidence(resp.data))

\* _extract_meta_data on a response [status, data]
extract_meta_data(resp) ==
    IF resp.status # "ok" \/ resp.data.keys = {}
    THEN FailedResult("structured_data", 0)
    ELSE ScrapingResult(TRUE, resp.data, "structured_data",
                        calculate_meta_confidence(resp.data))

\* _scrape_with_requests_fallback on a response [status, data]
scrape_with_requests_fallback(resp) ==
    IF resp.status # "ok"
    THEN FailedResult("requests", 0)
    ELSE ScrapingResult(TRUE, resp.data, "requests",
                        (calculate_playwright_confidence(resp.data) * 8) \div 10)

\* _scrape_with_playwright on a browser response [launch, status, data, fallback]:
\* launch is "ok", "not_implemented" (the launch error names NotImplementedError or
\* subprocess), "other_error" or "import_error"; status is the outcome of the page
\* visit once the browser runs
scrape_with_playwright(resp) ==
    IF resp.launch = "import_error" THEN FailedResult("playwright", 0)
    ELSE IF resp.launch = "not_implemented" THEN scrape_with_requests_fallback(resp.fallback)
    ELSE IF resp.launch = "other_error" THEN FailedResult("playwright", 0)
    ELSE IF resp.status = "exception_not_implemented"
         THEN scrape_with_requests_fallback(resp.fallback)
    ELSE IF resp.status # "ok" THEN FailedResult("playwright", 0)
    ELSE ScrapingResult(TRUE, resp.data, "playwright",
                        calculate_playwright_confidence(resp.data))

\* mutant of JsonLdGate: the gate met at 0.7 already
JsonLdGateAtLeast(result) == result.success /\ result.confidence >= 700

\* the gates of scrape(), lines 73 and 79
JsonLdGate(result) == result.success /\ result.confidence > 700
MetaGate(result) == result.success /\ result.confidence > 500

\* scrape(url) as a function of what the site serves
scrape(s) ==
    IF JsonLdGate(extract_json_ld(s.json_ld)) THEN extract_json_ld(s.json_ld)
    ELSE IF MetaGate(extract_meta_data(s.meta)) THEN extract_meta_data(s.meta)
    ELSE scrape_with_playwright(s.browser)

\* ---- the responses a site can give to each tier (bounded families)
Response(status, data) == [status |-> status, data |-> data]

\* the keys page.evaluate always returns (lines 356-406)
BrowserKeys == {"title", "url", "meta_description", "og_description", "jsonld",
                "text_content", "links", "email", "phone", "potential_company_name"}

\* the request fails (timeout, connection error, status other than 200)
Unreachable == Response("http_error", NoData)

\* an Organization block: name, description, url, address (confidence 0.8)
OrganizationJsonLd ==
    Response("ok", [NoData EXCEPT !.keys = {"name", "description", "url", "address"},
                                  !.description = "d_saas"])

JsonLdResponses ==
    { Unreachable,
      Response("ok", NoData),                                             \* no JSON-LD block
      OrganizationJsonLd,
      Response("ok", [NoData EXCEPT !.keys = {"name", "description", "url", "email"},
                                    !.description = "d_plain",
                                    !.email = "info@acme.io"]),           \* 0.7 exactly
      Response("ok", [NoData EXCEPT !.keys = {"name", "telephone", "address", "foundingDate"}]),
                                                                          \* 0.7000000000000001
      Response("ok", [NoData EXCEPT !.keys = {"name", "description"}, !.props = 3,
                                    !.description = "d_plain"]),          \* 0.8 by properties
      Response("ok", [NoData EXCEPT !.keys = {"url"}]) }                  \* 0.1

\* a page with title, meta description and a LinkedIn link (confidence 0.7)
MetaPage ==
    Response("ok", [NoData EXCEPT !.keys = {"title", "description", "links"},
                                  !.title = "Acme Software", !.description = "d_saas",
                                  !.nlinks = 1, !.linkedin = "linkedin.com/acme"])

MetaResponses ==
    { Unreachable,
      Response("ok", [NoData EXCEPT !.keys = {"links"}]),                 \* 0.0, success
      Response("ok", [NoData EXCEPT !.keys = {"title", "links"}, !.title = "Acme",
                                    !.nlinks = 2]),                       \* 0.4
      Response("ok", [NoData EXCEPT !.keys = {"title", "og_title", "links"},
                                    !.title = "Acme"]),                   \* 0.5 exactly
      MetaPage,
      Response("ok", [NoData EXCEPT !.keys = {"title", "description", "og_description",
                                              "og_image", "links"},
                                    !.title = "Acme", !.description = "d_plain",
                                    !.og_description = "d_saas", !.nlinks = 6]) }      \* 1.0

BrowserData(title, og, email, phone, text, nlinks) ==
    [NoData EXCEPT !.keys = BrowserKeys, !.title = title, !.og_description = og,
                   !.email = email, !.phone = phone, !.text_content = text,
                   !.nlinks = nlinks]

BrowserResponse(launch, status, data, fallback) ==
    [launch |-> launch, status |-> status, data |-> data, fallback |-> fallback]

NoFallback == Unreachable

\* the browser cannot be launched
BrowserDown == BrowserResponse("other_error", "ok", NoData, NoFallback)

\* a rendered page without title, description, email or phone
BrowserBlank ==
    BrowserResponse("ok", "ok", BrowserData(NULL, NULL, NULL, NULL, "", 0), NoFallback)

\* a rendered page with every field
BrowserFull ==
    BrowserResponse("ok", "ok",
                    BrowserData("Acme", "d_saas", "info@acme.io", "555-1234", "t_ceo", 6),
                    NoFallback)

\* a rendered page with a title and body text only
BrowserAbout ==
    BrowserResponse("ok", "ok", BrowserData("Acme", NULL, NULL, NULL, "d_est2009", 0),
                    NoFallback)

BrowserResponses ==
    { BrowserDown,
      BrowserResponse("ok", "http_error", NoData, NoFallback),
      BrowserBlank,
      BrowserFull,
      BrowserAbout,
      BrowserResponse("not_implemented", "ok", NoData, NoFallback),
      BrowserResponse("not_implemented", "ok", NoData,
                      Response("ok", [NoData EXCEPT
                                        !.keys = {"title", "jsonld", "text_content", "links",
                                                  "potential_company_name"},
                                        !.title = "Acme", !.text_content = "t_ceo"])) }

Sites == [json_ld : JsonLdResponses, meta : MetaResponses, browser : BrowserResponses]

Site(json_ld, meta, browser) == [json_ld |-> json_ld, meta |-> meta, browser |-> browser]

\* the sites the leads of the pipeline model point at
PipelineSites ==
    { Site(Unreachable, Unreachable, BrowserDown),
      Site(OrganizationJsonLd, Unreachable, BrowserDown),
      Site(Unreachable, MetaPage, BrowserDown),
      Site(Unreachable, Unreachable, BrowserAbout),
      Site(Unreachable, Unreachable, BrowserFull),
      Site(Unreachable, Unreachable, BrowserBlank) }

(***************************************************************************)
(* Lead rows (domain/models/lead.py, crud.create_lead)                     *)
(*                                                                         *)
(* A nullable string column holds NULL or its text, founded_year holds 0   *)
(* for NULL, score is in thousandths like the confidences, and             *)
(* outreach_message holds a message record (NoMessage for NULL).           *)
(***************************************************************************)
Message(kind, company, contact, industry) ==
    [kind |-> kind, company |-> company, contact |-> contact, industry |-> industry]

NoMessage == Message("none", NULL, NULL, NULL)

\* create_lead: the row as it is inserted
NewLead(org) ==
    [organization_id |-> org, company_name |-> NULL, industry |-> NULL, about_text |-> NULL,
     contact_name |-> NULL, contact_title |-> NULL, email |-> NULL, phone |-> NULL,
     linkedin_url |-> NULL, employees |-> NULL, revenue_band |-> NULL, founded_year |-> 0,
     score |-> 0, qualification_label |-> "Low Priority",
     scrape_confidence |-> 0, email_confidence |-> 0, enrichment_confidence |-> 0,
     enrichment_source |-> "none", scrape_source |-> "none",
     outreach_message |-> NoMessage, is_active |-> TRUE]

(***************************************************************************)
(* WaterfallEnricher (enrichment/enricher.py)                              *)
(*                                                                         *)
(* The text analysed is a sequence of passages (" ".join(texts)).  What    *)
(* the keyword lists and regular expressions of the enricher find in a     *)
(* passage is tabulated in TextFeatures: kw the industry keywords          *)
(* contained in its lower-cased text, emp_kw the employee keywords         *)
(* contained, emp_count the first number matched by an employee pattern    *)
(* (0: no match), contact_name and contact_title the first matches of the  *)
(* contact patterns, and year_str the first match of a founded-year        *)
(* pattern.  The passages of the model:                                    *)
(*   "Acme", "Acme Software", "Software", "Fintech", "Finance"             *)
(*   d_plain    "We make things"                                           *)
(*   d_saas     "We are a 120-person SaaS platform founded in 2014"        *)
(*   t_ceo      "Acme is an established fintech. CEO Jane Doe leads a team *)
(*               of 30 since 2009"                                         *)
(*   d_est      "Established in '05 by Founder Jane Doe"                   *)
(*   d_director "Acme Labs is a saas maker with 30 employees. Contact the  *)
(*               director"                                                 *)
(*   d_est2009  "Established in 2009. Contact our director"                *)
(*   d_founded49, d_founded50, d_founded99                                 *)
(*              "Founded in '49", "Founded in '50", "Founded in '99"       *)
(* No match of the model's passages spans two passages.                    *)
(***************************************************************************)
\* self.industry_keywords, in the order of the dict
industry_keywords ==
    << [name |-> "Software",
        keywords |-> {"software", "saas", "platform", "cloud", "api", "app", "application",
                      "tech", "technology"}],
       [name |-> "Consulting",
        keywords |-> {"consulting", "advisory", "services", "strategy", "business",
                      "management"}],
       [name |-> "E-commerce",
        keywords |-> {"ecommerce", "retail", "shop", "store", "marketplace", "buy", "sell"}],
       [name |-> "Finance",
        keywords |-> {"finance", "banking", "investment", "fintech", "payment", "financial",
                      "money"}],
       [name |-> "Healthcare",
        keywords |-> {"health", "medical", "clinic", "hospital", "care", "pharma",
                      "healthcare"}],
       [name |-> "Marketing",
        keywords |-> {"marketing", "advertising", "media", "social", "campaign", "brand"}],
       [name |-> "Education",
        keywords |-> {"education", "learning", "school", "university", "course", "training",
                      "edu"}],
       [name |-> "Real Estate",
        keywords |-> {"real estate", "property", "realestate", "estate", "housing", "rent",
                      "buy"}],
       [name |-> "Travel",
        keywords |-> {"travel", "tourism", "hotel", "booking", "vacation", "flight",
                      "airline"}],
       [name |-> "Food & Beverage",
        keywords |-> {"restaurant", "food", "beverage", "cafe", "catering", "delivery"}] >>

\* self.employee_keywords, in the order of the dict
employee_keywords ==
    << [size_range |-> "1-10",
        keywords |-> {"startup", "early stage", "small team", "small business"}],
       [size_range |-> "11-50",
        keywords |-> {"growing", "medium sized", "expanding", "scale up"}],
       [size_range |-> "51-200",
        keywords |-> {"established", "mid sized", "corporate", "professional"}],
       [size_range |-> "201-500", keywords |-> {"large", "enterprise", "major", "substantial"}],
       [size_range |-> "500+",
        keywords |-> {"huge", "massive", "very large", "major corporation"}] >>

\* a founded-year match: quote is TRUE for the abbreviated form 'NN
YearStr(quote, digits) == [quote |-> quote, digits |-> digits]

NoYear == YearStr(FALSE, 0)

Passage(kw, emp_kw, emp_count, contact_name, contact_title, year_str) ==
    [kw |-> kw, emp_kw |-> emp_kw, emp_count |-> emp_count, contact_name |-> contact_name,
     contact_title |-> contact_title, year_str |-> year_str]

TextFeatures(text) ==
    CASE text \in {"Acme Software", "Software"} ->
             Passage({"software"}, {}, 0, NULL, NULL, NoYear)
      [] text = "Fintech" -> Passage({"tech", "fintech"}, {}, 0, NULL, NULL, NoYear)
      [] text = "Finance" -> Passage({"finance"}, {}, 0, NULL, NULL, NoYear)
      [] text = "d_saas" ->
             Passage({"saas", "platform"}, {}, 0, NULL, NULL, YearStr(FALSE, 2014))
      [] text = "t_ceo" ->
             Passage({"tech", "fintech"}, {"established"}, 30, "Jane Doe", "Ceo",
                     YearStr(FALSE, 2009))
      [] text = "d_est" ->
             Passage({}, {"established"}, 0, "Jane Doe", "Founder", YearStr(TRUE, 5))
      [] text = "d_director" -> Passage({"saas"}, {}, 30, NULL, "Director", NoYear)
      [] text = "d_est2009" ->
             Passage({}, {"established"}, 0, NULL, "Director", YearStr(FALSE, 2009))
      [] text = "d_founded49" -> Passage({}, {}, 0, NULL, NULL, YearStr(TRUE, 49))
      [] text = "d_founded50" -> Passage({}, {}, 0, NULL, NULL, YearStr(TRUE, 50))
      [] text = "d_founded99" -> Passage({}, {}, 0, NULL, NULL, YearStr(TRUE, 99))
      [] OTHER -> Passage({}, {}, 0, NULL, NULL, NoYear)

\* the passages longer than 50 characters
LongTexts == {"t_ceo", "d_director"}

\* class EnrichmentResult; data is the enriched_data dict (keys: the keys present)
EnrichmentResult(success, data, method, confidence) ==
    [success |-> success, data |-> data, method |-> method, confidence |-> confidence]

NoEnrichData ==
    [keys |-> {}, industry |-> NULL, employees |-> NULL, revenue_band |-> NULL,
     contact_name |-> NULL, contact_title |-> NULL, founded_year |-> 0]

\* the None a strategy returns
NoEnrichment == EnrichmentResult(FALSE, NoEnrichData, "none", 0)

\* mutant of get_text_for_analysis: the industry stored on the lead is analysed too
get_text_with_industry(lead, scraped_data) ==
    (IF Truthy(lead.industry) THEN <<lead.industry>> ELSE <<>>)
    \o (IF Truthy(lead.company_name) THEN <<lead.company_name>> ELSE <<>>)
    \o (IF Truthy(lead.about_text) THEN <<lead.about_text>> ELSE <<>>)
    \o (IF "text_content" \in scraped_data.keys THEN <<scraped_data.text_content>>
        ELSE IF "description" \in scraped_data.keys THEN <<scraped_data.description>>
        ELSE IF "og_description" \in scraped_data.keys THEN <<scraped_data.og_description>>
        ELSE IF "title" \in scraped_data.keys THEN <<scraped_data.title>>
        ELSE <<>>)

\* _get_text_for_analysis: the texts list ("Company: " adds no match to a name)
get_text_for_analysis(lead, scraped_data) ==
    (IF Truthy(lead.company_name) THEN <<lead.company_name>> ELSE <<>>)
    \o (IF Truthy(lead.about_text) THEN <<lead.about_text>> ELSE <<>>)
    \o (IF "text_content" \in scraped_data.keys THEN <<scraped_data.text_content>>
        ELSE IF "description" \in scraped_data.keys THEN <<scraped_data.description>>
        ELSE IF "og_description" \in scraped_data.keys THEN <<scraped_data.og_description>>
        ELSE IF "title" \in scraped_data.keys THEN <<scraped_data.title>>
        ELSE <<>>)

\* " ".join(texts) raises TypeError when a scraped value is None
join_raises(texts) == \E k \in DOMAIN texts : texts[k] = NULL

\* _infer_industry: the industry with most keywords in the text, the first of the
\* dict among equals (max over a dict in insertion order)
infer_industry(texts) ==
    LET found == UNION {TextFeatures(texts[k]).kw : k \in DOMAIN texts}
        score(i) == Cardinality(industry_keywords[i].keywords \cap found)
        scored == {i \in DOMAIN industry_keywords : score(i) > 0}
    IN  IF scored = {} THEN NULL
        ELSE industry_keywords[CHOOSE i \in scored :
                                 \A j \in scored :
                                    score(j) < score(i) \/ (score(j) = score(i) /\ i <= j)].name

\* _estimate_employees: the first size range with a keyword in the text, else the
\* band of the first number an employee pattern matches
estimate_employees(texts) ==
    LET found == UNION {TextFeatures(texts[k]).emp_kw : k \in DOMAIN texts}
        ranges == {i \in DOMAIN employee_keywords : employee_keywords[i].keywords \cap found # {}}
        counted == {k \in DOMAIN texts : TextFeatures(texts[k]).emp_count > 0}
        count == TextFeatures(texts[CHOOSE k \in counted : \A m \in counted : k <= m]).emp_count
    IN  IF ranges # {}
        THEN employee_keywords[CHOOSE i \in ranges : \A j \in ranges : i <= j].size_range
        ELSE IF counted = {} THEN NULL
        ELSE IF count <= 10 THEN "1-10"
        ELSE IF count <= 50 THEN "11-50"
        ELSE IF count <= 200 THEN "51-200"
        ELSE IF count <= 500 THEN "201-500"
        ELSE "500+"

\* _estimate_revenue_from_employees
estimate_revenue_from_employees(employees) ==
    CASE employees = "1-10" -> "$0-1M"
      [] employees = "11-50" -> "$1M-10M"
      [] employees = "51-200" -> "$10M-50M"
      [] employees = "201-500" -> "$50M-100M"
      [] employees = "500+" -> "$100M+"
      [] OTHER -> NULL

\* _extract_contact_person: the first match in the text
extract_contact_person(texts) ==
    LET named == {k \in DOMAIN texts : TextFeatures(texts[k]).contact_name # NULL}
    IN  IF named = {} THEN NULL
        ELSE TextFeatures(texts[CHOOSE k \in named : \A m \in named : k <= m]).contact_name

\* _extract_contact_title: the first match in the text, title-cased
extract_contact_title(texts) ==
    LET titled == {k \in DOMAIN texts : TextFeatures(texts[k]).contact_title # NULL}
    IN  IF titled = {} THEN NULL
        ELSE TextFeatures(texts[CHOOSE k \in titled : \A m \in titled : k <= m]).contact_title

\* _extract_founded_year: an abbreviated year 'NN is read as 20NN (the branch for a
\* bare two-digit string is never taken: the quote is part of the match); the year
\* is returned when it lies in 1900..2030, and is 0 (None) otherwise
extract_founded_year(texts) ==
    LET dated == {k \in DOMAIN texts : TextFeatures(texts[k]).year_str # NoYear}
        year_str == TextFeatures(texts[CHOOSE k \in dated : \A m \in dated : k <= m]).year_str
        year == IF year_str.quote THEN 2000 + year_str.digits ELSE year_str.digits
    IN  IF dated = {} THEN 0
        ELSE IF 1900 <= year /\ year <= 2030 THEN year ELSE 0

\* _heuristic_enrichment.  The IEEE-754 sum of the bonuses is 0.7000000000000001
\* (above the 0.7 of the gate) exactly for employees, revenue band, contact name,
\* title and founded year without an industry.
heuristic_enrichment(lead, scraped_data) ==
    LET texts == get_text_for_analysis(lead, scraped_data)
        industry == infer_industry(texts)
        employees == estimate_employees(texts)
        revenue_band == estimate_revenue_from_employees(employees)
        contact_name == extract_contact_person(texts)
        contact_title == extract_contact_title(texts)
        founded_year == extract_founded_year(texts)
        keys == (IF industry # NULL THEN {"industry"} ELSE {})
                \cup (IF employees # NULL THEN {"employees"} ELSE {})
                \cup (IF revenue_band # NULL THEN {"revenue_band"} ELSE {})
                \cup (IF contact_name # NULL THEN {"contact_name"} ELSE {})
                \cup (IF contact_title # NULL THEN {"contact_title"} ELSE {})
                \cup (IF founded_year # 0 THEN {"founded_year"} ELSE {})
        confidence == Bonus("industry" \in keys, 300) + Bonus("employees" \in keys, 200)
                      + Bonus("revenue_band" \in keys, 100)
                      + Bonus("contact_name" \in keys, 150)
                      + Bonus("contact_title" \in keys, 100)
                      + Bonus("founded_year" \in keys, 150)
        roundedUp == keys = {"employees", "revenue_band", "contact_name", "contact_title",
                             "founded_year"}
    IN  IF join_raises(texts) \/ keys = {} THEN NoEnrichment
        ELSE EnrichmentResult(TRUE,
                 [keys |-> keys, industry |-> industry, employees |-> employees,
                  revenue_band |-> revenue_band, contact_name |-> contact_name,
                  contact_title |-> contact_title, founded_year |-> founded_year],
                 "heuristic", Min(confidence + Bonus(roundedUp, 1), 900))

\* _external_api_enrichment: a placeholder that returns None
external_api_enrichment(lead, scraped_data) == NoEnrichment

\* _llm_enrichment on the reply of the model provider: llm is [key, outcome, data],
\* key whether GROQ_API_KEY is usable, outcome "json" when the reply holds a JSON
\* object, data that object without its null values
llm_enrichment(lead, scraped_data, llm) ==
    IF ~llm.key \/ join_raises(get_text_for_analysis(lead, scraped_data))
       \/ llm.outcome # "json" \/ llm.data.keys = {}
    THEN NoEnrichment
    ELSE EnrichmentResult(TRUE, llm.data, "llm",
                          Min(500 + 100 * Cardinality(llm.data.keys), 800))

\* mutant of HeuristicGate: the heuristic result accepted at 0.7 already
HeuristicGateAtLeast(result) == result.success /\ result.confidence >= 700

\* the gates of enrich_lead_data, lines 152, 159 and 165
HeuristicGate(result) == result.success /\ result.confidence > 700
ApiGate(result) == result.success /\ result.confidence > 600
LlmGate(result) == result.success

\* enrich_lead_data(lead, scraped_data) as a function of its inputs and the reply
\* of the model provider
enrich_lead_data(lead, scraped_data, llm) ==
    IF HeuristicGate(heuristic_enrichment(lead, scraped_data))
    THEN heuristic_enrichment(lead, scraped_data)
    ELSE IF ApiGate(external_api_enrichment(lead, scraped_data))
    THEN external_api_enrichment(lead, scraped_data)
    ELSE IF LlmGate(llm_enrichment(lead, scraped_data, llm))
    THEN llm_enrichment(lead, scraped_data, llm)
    ELSE NoEnrichment

\* ---- the replies of the model provider (bounded family)
LlmReply(key, outcome, data) == [key |-> key, outcome |-> outcome, data |-> data]

NoLlmReply == LlmReply(FALSE, "none", NoEnrichData)

\* a reply with two fields
FintechReply ==
    LlmReply(TRUE, "json", [NoEnrichData EXCEPT !.keys = {"industry", "employees"},
                                                !.industry = "Fintech",
                                                !.employees = "51-200"])

\* the replies given to the jobs of the pipeline model
PipelineLlmReplies == {NoLlmReply, FintechReply}

LlmReplies ==
    { NoLlmReply,                                             \* no credential
      LlmReply(TRUE, "error", NoEnrichData),                  \* the call raised
      LlmReply(TRUE, "json", NoEnrichData),                   \* every field null
      FintechReply,                                           \* 0.7
      LlmReply(TRUE, "json", [NoEnrichData EXCEPT !.keys = {"industry", "employees",
                                                            "founded_year", "contact_name"},
                                                  !.industry = "Finance",
                                                  !.employees = "11-50",
                                                  !.founded_year = 2014,
                                                  !.contact_name = "Jane Doe"]) }    \* 0.8

\* the arguments of the calls of the model: leads and scraped data dicts
EnrichLeads ==
    { NewLead(1),
      [NewLead(1) EXCEPT !.company_name = "Acme"],
      [NewLead(1) EXCEPT !.company_name = "Acme Software", !.about_text = "d_est2009"] }

EnrichScraped ==
    { NoData,                                                 \* {}: the scrape failed
      [NoData EXCEPT !.keys = {"title"}, !.title = "Acme Software"],
      [NoData EXCEPT !.keys = {"name", "description"}, !.description = "d_saas"],
      [NoData EXCEPT !.keys = {"title", "description"}, !.title = "Acme",
                     !.description = "d_director"],
      [NoData EXCEPT !.keys = {"title", "og_description"}, !.title = "Acme",
                     !.og_description = "d_est"],
      BrowserData("Acme", "d_saas", NULL, NULL, "t_ceo", 6),
      BrowserData(NULL, NULL, NULL, NULL, "", 0) }

(***************************************************************************)
(* LeadScoringService (domain/services/scoring.py)                         *)
(***************************************************************************)
ScoreResult(total_score, qualification_label) ==
    [total_score |-> total_score, qualification_label |-> qualification_label]

NoScore == ScoreResult(0, "none")

\* _evaluate_industry_match: preferred_industries
preferred_industries ==
    {"Software", "SaaS", "Technology", "Fintech", "Healthcare", "E-commerce", "AI", "Data"}

\* _evaluate_company_size: preferred_sizes
preferred_sizes == {"11-50", "51-200", "201-500"}

\* the quality criteria: max_score * confidence from the threshold 0.6 on
quality_score(confidence) == IF confidence >= 600 THEN 15 * confidence ELSE 0

\* mutant of classify_lead: the bands begin above 80, 60 and 40
classify_lead_above(score) ==
    IF score > 80000 THEN "Hot Lead"
    ELSE IF score > 60000 THEN "Warm Lead"
    ELSE IF score > 40000 THEN "Cold Lead"
    ELSE "Disqualified"

\* _classify_lead
classify_lead(score) ==
    IF score >= 80000 THEN "Hot Lead"
    ELSE IF score >= 60000 THEN "Warm Lead"
    ELSE IF score >= 40000 THEN "Cold Lead"
    ELSE "Disqualified"

\* score_lead with the default criteria
score_lead(lead) ==
    LET total_score ==
            Bonus(Truthy(lead.industry) /\ lead.industry \in preferred_industries, 25000)
            + Bonus(Truthy(lead.employees) /\ lead.employees \in preferred_sizes, 20000)
            + quality_score(lead.email_confidence)
            + quality_score(lead.scrape_confidence)
            + quality_score(lead.enrichment_confidence)
            + Bonus(Truthy(lead.linkedin_url), 10000)
    IN  ScoreResult(Min(total_score, 100000), classify_lead(Min(total_score, 100000)))

(***************************************************************************)
(* Messenger (messaging/messenger.py)                                      *)
(*                                                                         *)
(* A message is recorded by the template that produced it and the Lead     *)
(* values the template interpolates; the website is the same in all.       *)
(***************************************************************************)
\* the reply of the model provider to the message prompt: key whether GROQ_API_KEY
\* is usable, outcome "text" or "error", mentions_company whether the text
\* contains the company name of the prompt
MessageReply(key, outcome, mentions_company) ==
    [key |-> key, outcome |-> outcome, mentions_company |-> mentions_company]

NoMessageReply == MessageReply(FALSE, "none", FALSE)

MessageReplies ==
    { NoMessageReply, MessageReply(TRUE, "text", TRUE), MessageReply(TRUE, "text", FALSE) }

\* the replies given to the jobs of the pipeline model
PipelineMessageReplies == {NoMessageReply, MessageReply(TRUE, "text", FALSE)}

\* _has_sufficient_data: at least two data points
has_sufficient_data(lead) ==
    Bonus(Truthy(lead.company_name), 1) + Bonus(Truthy(lead.industry), 1)
    + Bonus(Truthy(lead.about_text) /\ lead.about_text \in LongTexts, 1)
    + Bonus(Truthy(lead.contact_name), 1) + Bonus(Truthy(lead.employees), 1) >= 2

\* _generate_llm_message with _validate_response: the reply, led by a greeting of
\* the company when the reply does not mention it
generate_llm_message(lead, reply) ==
    IF ~reply.key \/ reply.outcome # "text" THEN NoMessage
    ELSE IF Truthy(lead.company_name) /\ ~reply.mentions_company
    THEN Message("llm_with_greeting", lead.company_name, NULL, NULL)
    ELSE Message("llm", NULL, NULL, NULL)

\* _generate_template_message
generate_template_message(lead) ==
    LET contact_ref == IF Truthy(lead.contact_name) THEN lead.contact_name ELSE "the team"
    IN  IF Truthy(lead.company_name) /\ Truthy(lead.industry)
        THEN Message("industry_template", lead.company_name, contact_ref, lead.industry)
        ELSE IF Truthy(lead.company_name)
        THEN Message("generic_template", lead.company_name, contact_ref, NULL)
        ELSE Message("website_only_template", "your company", NULL, NULL)

\* generate_message
generate_message(lead, reply) ==
    IF has_sufficient_data(lead) /\ generate_llm_message(lead, reply) # NoMessage
    THEN generate_llm_message(lead, reply)
    ELSE generate_template_message(lead)

\* orchestrator.py lines 253-255: the text written when AI features are not available
AiNotAvailableMessage == Message("ai_not_available", NULL, NULL, NULL)

(***************************************************************************)
(* process_lead_task (workers/orchestrator.py): the data of the job        *)
(***************************************************************************)
\* class LeadUpdate: the fields of the schema.  A keyword argument that is not a
\* field of the schema is ignored by the constructor (pydantic's default for
\* extra fields) and is not in .dict(exclude_unset=True).
LeadUpdateFields ==
    {"company_name", "industry", "about_text", "contact_name", "contact_title", "email",
     "phone", "address", "linkedin_url", "twitter_url", "facebook_url", "employees",
     "revenue_band", "founded_year", "outreach_message", "is_active"}

\* a dict of keyword arguments; Key is the entry made under a condition
EmptyDict == [k \in {} |-> NULL]
Key(cond, k, v) == IF cond THEN k :> v ELSE EmptyDict

\* update_lead(db, lead_id, LeadUpdate(**update_data)): every field of the schema
\* that was passed is set, a passed None included
update_lead(lead, update_data) ==
    [f \in DOMAIN lead |->
        IF f \in (DOMAIN update_data) \cap LeadUpdateFields THEN update_data[f] ELSE lead[f]]

\* lines 131-152: update_data of the scrape merge (a later assignment of a key
\* replaces an earlier one)
scrape_update_data(scraping_result) ==
    LET scraped_data == scraping_result.data IN
    Key("links" \in scraped_data.keys /\ scraped_data.linkedin # NULL,
        "linkedin_url", scraped_data.linkedin)
    @@ Key("phone" \in scraped_data.keys, "phone", scraped_data.phone)
    @@ Key("email" \in scraped_data.keys, "email", scraped_data.email)
    @@ Key("og_description" \in scraped_data.keys, "about_text", scraped_data.og_description)
    @@ Key("description" \in scraped_data.keys, "about_text", scraped_data.description)
    @@ Key("title" \in scraped_data.keys, "company_name", scraped_data.title)
    @@ [scrape_confidence |-> scraping_result.confidence,
        scrape_source |-> scraping_result.method]

\* lines 203-221: update_data of the enrichment merge
enrichment_update_data(enrichment_result) ==
    LET enriched_data == enrichment_result.data IN
    Key("industry" \in enriched_data.keys, "industry", enriched_data.industry)
    @@ Key("employees" \in enriched_data.keys, "employees", enriched_data.employees)
    @@ Key("revenue_band" \in enriched_data.keys, "revenue_band", enriched_data.revenue_band)
    @@ Key("founded_year" \in enriched_data.keys, "founded_year", enriched_data.founded_year)
    @@ Key("contact_name" \in enriched_data.keys, "contact_name", enriched_data.contact_name)
    @@ Key("contact_title" \in enriched_data.keys, "contact_title",
           enriched_data.contact_title)
    @@ [enrichment_confidence |-> enrichment_result.confidence,
        enrichment_source |-> enrichment_result.method]

\* lines 234-237: update_data of the scoring step
score_update_data(score_result) ==
    [score |-> score_result.total_score,
     qualification_label |-> score_result.qualification_label]

\* mutant of can_use_ai_features: every paid plan may use AI, whatever the environment
can_use_ai_if_paid(subs, env, org) == plan_name_of(subs, org) # "free"

\* can_use_ai_features: CAN_USE_AI_<PLAN> of the organization's plan is "true"
can_use_ai_features(subs, env, org) == plan_name_of(subs, org) \in env

\* the settings of the CAN_USE_AI_* variables of the model (all default to "false")
AiEnvs == {{}, {"pro"}}

\* the leads table of the model holds one lead, of organization 1
LeadIds == {1}

\* mutant of ScrapingLog: the row is written as a success whatever the result
ScrapingLogOfSuccess(lead_id, scraping_result) ==
    [lead_id |-> lead_id, scraping_method |-> scraping_result.method,
     success |-> TRUE, confidence_score |-> scraping_result.confidence]

\* rows of the log tables
ScrapingLog(lead_id, scraping_result) ==
    [lead_id |-> lead_id, scraping_method |-> scraping_result.method,
     success |-> scraping_result.success, confidence_score |-> scraping_result.confidence]

LeadEnrichmentLog(lead_id, enrichment_result) ==
    [lead_id |-> lead_id, enrichment_type |-> enrichment_result.method,
     confidence_score |-> enrichment_result.confidence]


\* the locals of process_lead_task and what the job has done so far; before is the
\* Lead row as the job loaded it, logs_before the sizes of the two log tables then,
\* sessions the database sessions the job opened and has not closed ("db" of line
\* 60, "db_subscription" of lines 164 and 245)
IdleJob ==
    [pc |-> "idle", run |-> 0, lead_id |-> 0, outcome |-> "none", attempts |-> 0,
     fault |-> FALSE, scraping_result |-> NoResult, enrichment_result |-> NoEnrichment,
     score_result |-> NoScore, outreach_message |-> NoMessage,
     gate1 |-> "unset", gate2 |-> "unset",
     enricher_invoked |-> FALSE, messenger_invoked |-> FALSE,
     awaited |-> FALSE, sessions |-> {}, llm |-> NoLlmReply, reply |-> NoMessageReply,
     before |-> NewLead(0), logs_before |-> <<0, 0>>]

\* a finished job: its outcome, the upstream responses it was given, the decisions
\* of its gates, and the Lead row it left
Run(j, lead) ==
    [outcome |-> j.outcome, lead_id |-> j.lead_id, scraping_result |-> j.scraping_result,
     llm |-> j.llm, reply |-> j.reply, gate1 |-> j.gate1, gate2 |-> j.gate2, lead |-> lead]

NoRun == Run(IdleJob, NewLead(0))

(***************************************************************************)
(* Initial values shared by the specifications, and the frames             *)
(***************************************************************************)
QuotaIdle ==
    /\ dailyLeads = <<>>
    /\ pendingJobs = {}
    /\ req = <<>>

ScrapeIdle ==
    /\ site = <<>>
    /\ scrapePc = "idle"
    /\ executed = <<>>
    /\ returned = <<>>

EnrichIdle ==
    /\ enrichIn = <<>>
    /\ enrichPc = "idle"
    /\ invoked = <<>>
    /\ enriched = <<>>

PipelineIdle ==
    /\ leads = <<>>
    /\ scrapingLogs = <<>>
    /\ enrichmentLogs = <<>>
    /\ aiEnv = {}
    /\ job = <<>>
    /\ lastRun = <<>>
    /\ prevRun = <<>>

\* no request to the API has been made
ApiIdle ==
    /\ users = <<>>
    /\ tokens = {}
    /\ response = <<>>

QuotaFrame == UNCHANGED <<billingVars, apiVars, scrapeVars, enrichVars, pipelineVars>>
ScrapeFrame == UNCHANGED <<quotaVars, billingVars, apiVars, enrichVars, pipelineVars>>
EnrichFrame == UNCHANGED <<quotaVars, billingVars, apiVars, scrapeVars, pipelineVars>>
PipelineFrame == UNCHANGED <<quotaVars, scrapeVars, enrichVars, calls, apiVars>>

\* ---- scrape(url), one tier per step
Return(result) ==
    /\ returned' = result
    /\ scrapePc' = "done"

Ran(tier, result) == [tier |-> tier, result |-> result]

\* scrape, lines 71-75: tier 1, JSON-LD
ScrapeJsonLd ==
    /\ scrapePc = "tier1"
    /\ executed' = Append(executed, Ran("json_ld", extract_json_ld(site.json_ld)))
    /\ IF JsonLdGate(extract_json_ld(site.json_ld))
       THEN Return(extract_json_ld(site.json_ld))
       ELSE scrapePc' = "tier2" /\ UNCHANGED returned
    /\ UNCHANGED site
    /\ ScrapeFrame

\* scrape, lines 77-81: tier 2, meta tags
ScrapeMeta ==
    /\ scrapePc = "tier2"
    /\ executed' = Append(executed, Ran("meta", extract_meta_data(site.meta)))
    /\ IF MetaGate(extract_meta_data(site.meta))
       THEN Return(extract_meta_data(site.meta))
       ELSE scrapePc' = "tier3" /\ UNCHANGED returned
    /\ UNCHANGED site
    /\ ScrapeFrame

\* scrape, lines 83-86: tier 3, headless browser (with its plain-request fallback)
ScrapePlaywright ==
    /\ scrapePc = "tier3"
    /\ executed' = Append(executed, Ran("headless", scrape_with_playwright(site.browser)))
    /\ Return(scrape_with_playwright(site.browser))
    /\ UNCHANGED site
    /\ ScrapeFrame

InitScrape ==
    /\ QuotaIdle
    /\ subscriptions = <<>>
    /\ calls = <<>>
    /\ ApiIdle
    /\ EnrichIdle
    /\ PipelineIdle
    /\ site \in Sites
    /\ scrapePc = "tier1"
    /\ executed = <<>>
    /\ returned = NoResult

NextScrape == ScrapeJsonLd \/ ScrapeMeta \/ ScrapePlaywright

SpecScrape == InitScrape /\ [][NextScrape]_vars

\* C5: the tiers run in the fixed order JSON-LD, meta, headless; a tier runs only
\* after every earlier tier failed or missed its gate (JSON-LD: success and
\* confidence > 0.7; meta: success and confidence > 0.5); the result returned is
\* that of the first tier that met its gate, and no tier runs after it.
TiersInOrder ==
    LET order == <<"json_ld", "meta", "headless">>
        MeetsGate(i) ==
            \/ i = 1 /\ executed[1].result.success /\ executed[1].result.confidence > 700
            \/ i = 2 /\ executed[2].result.success /\ executed[2].result.confidence > 500
            \/ i = 3
    IN  /\ Len(executed) <= 3
        /\ \A i \in DOMAIN executed :
              /\ executed[i].tier = order[i]
              /\ i < Len(executed) => ~MeetsGate(i)
              /\ (i = Len(executed) /\ MeetsGate(i)) =>
                    scrapePc = "done" /\ returned = executed[i].result
        /\ scrapePc = "done" => Len(executed) >= 1 /\ MeetsGate(Len(executed))
        /\ scrapePc = "done" => returned = scrape(site)

\* C5 witness: the JSON-LD tier succeeded below its gate, the meta tier met its
\* gate and was returned, and the headless tier did not run.
StoppedAtMetaTier ==
    /\ scrapePc = "done"
    /\ Len(executed) = 2
    /\ executed[1].result.success
    /\ returned.method = "structured_data"

(***************************************************************************)
(* enrich_lead_data(lead, scraped_data), one strategy per step             *)
(***************************************************************************)
EnrichReturn(result) ==
    /\ enriched' = result
    /\ enrichPc' = "done"

Invoked(strategy, result) == [strategy |-> strategy, result |-> result]

\* enrich_lead_data, lines 150-154: step 1, the heuristic strategy
EnrichHeuristic ==
    LET result == heuristic_enrichment(enrichIn.lead, enrichIn.scraped_data) IN
    /\ enrichPc = "heuristic"
    /\ invoked' = Append(invoked, Invoked("heuristic", result))
    /\ IF HeuristicGate(result)
       THEN EnrichReturn(result)
       ELSE enrichPc' = "external_api" /\ UNCHANGED enriched
    /\ UNCHANGED enrichIn
    /\ EnrichFrame

\* enrich_lead_data, lines 156-161: step 2, the external API
EnrichExternalApi ==
    LET result == external_api_enrichment(enrichIn.lead, enrichIn.scraped_data) IN
    /\ enrichPc = "external_api"
    /\ invoked' = Append(invoked, Invoked("external_api", result))
    /\ IF ApiGate(result)
       THEN EnrichReturn(result)
       ELSE enrichPc' = "llm" /\ UNCHANGED enriched
    /\ UNCHANGED enrichIn
    /\ EnrichFrame

\* enrich_lead_data, lines 163-170: step 3, the LLM, and the final return None
EnrichLlm ==
    LET result == llm_enrichment(enrichIn.lead, enrichIn.scraped_data, enrichIn.llm) IN
    /\ enrichPc = "llm"
    /\ invoked' = Append(invoked, Invoked("llm", result))
    /\ IF LlmGate(result) THEN EnrichReturn(result) ELSE EnrichReturn(NoEnrichment)
    /\ UNCHANGED enrichIn
    /\ EnrichFrame

InitEnrich ==
    /\ QuotaIdle
    /\ subscriptions = <<>>
    /\ calls = <<>>
    /\ ApiIdle
    /\ ScrapeIdle
    /\ PipelineIdle
    /\ enrichIn \in [lead : EnrichLeads, scraped_data : EnrichScraped, llm : LlmReplies]
    /\ enrichPc = "heuristic"
    /\ invoked = <<>>
    /\ enriched = NoEnrichment

NextEnrich == EnrichHeuristic \/ EnrichExternalApi \/ EnrichLlm

SpecEnrich == InitEnrich /\ [][NextEnrich]_vars

\* C7: the strategies are invoked in the order heuristic, external API, LLM; a
\* strategy is invoked only after every earlier one was not accepted (heuristic:
\* a result with confidence > 0.7; external API: a result with confidence > 0.6;
\* LLM: any result); the first accepted result is returned and nothing is invoked
\* after it; when none is accepted the call returns null.
WaterfallInOrder ==
    LET order == <<"heuristic", "external_api", "llm">>
        Accepted(i) ==
            \/ i = 1 /\ invoked[1].result.success /\ invoked[1].result.confidence > 700
            \/ i = 2 /\ invoked[2].result.success /\ invoked[2].result.confidence > 600
            \/ i = 3 /\ invoked[3].result.success
    IN  /\ Len(invoked) <= 3
        /\ \A i \in DOMAIN invoked :
              /\ invoked[i].strategy = order[i]
              /\ i < Len(invoked) => ~Accepted(i)
              /\ (i = Len(invoked) /\ Accepted(i)) =>
                    enrichPc = "done" /\ enriched = invoked[i].result
        /\ enrichPc = "done" =>
              /\ Len(invoked) >= 1
              /\ Accepted(Len(invoked)) \/ (Len(invoked) = 3 /\ enriched = NoEnrichment)
              /\ enriched.method = "heuristic" <=> Accepted(1)
        /\ enrichPc # "done" => enriched = NoEnrichment

\* C7 witness: the heuristic strategy produced a result below its gate, the
\* external API gave nothing, and the result of the LLM was returned.
LlmAcceptedAfterHeuristic ==
    /\ enrichPc = "done"
    /\ Len(invoked) = 3
    /\ invoked[1].result.success
    /\ enriched.method = "llm"

(***************************************************************************)
(* POST /leads/ and POST /leads/single (api/endpoints/leads.py)            *)
(*                                                                         *)
(* A handler is a sequence of database statements; handlers of different   *)
(* server processes share the database and interleave between statements.  *)
(* Neither handler takes a lock or runs check and insert in one statement. *)
(***************************************************************************)
Respond(r, code) == [req EXCEPT ![r].status = code, ![r].pc = "done"]

\* create_lead(db, lead_create) followed by background_tasks.add_task(...): the
\* new row's id is its position in the table
CreateLeadFor(r) ==
    LET id == Len(dailyLeads) + 1 IN
    /\ dailyLeads' = Append(dailyLeads, req[r].leadOrg)
    /\ pendingJobs' = pendingJobs \cup {id}
    /\ req' = [req EXCEPT ![r].created = @ \cup {id},
                          ![r].pc = IF Cardinality(req[r].created) + 1 >= req[r].n
                                    THEN "done" ELSE @,
                          ![r].status = IF Cardinality(req[r].created) + 1 >= req[r].n
                                        THEN 200 ELSE @]

\* create_leads_from_urls, lines 46-52: the request arrives; an empty url list is a 400
PostLeads(r, org, n) ==
    /\ req[r].pc = "idle"
    /\ req' = [req EXCEPT ![r] = [IdleReq EXCEPT !.kind = "bulk", !.org = org,
                                                 !.leadOrg = org, !.n = n,
                                                 !.pc = IF n = 0 THEN "done" ELSE "can_create",
                                                 !.status = IF n = 0 THEN 400 ELSE 0]]
    /\ UNCHANGED <<dailyLeads, pendingJobs>>
    /\ QuotaFrame

\* create_leads_from_urls, lines 54-60: can_create_lead, else 429
BulkCanCreateLead(r) ==
    /\ req[r].pc = "can_create"
    /\ req[r].kind = "bulk"
    /\ req' = IF can_create_lead(dailyLeads, plan_name_of(subscriptions, req[r].org), req[r].org)
              THEN [req EXCEPT ![r].pc = "usage"]
              ELSE Respond(r, 429)
    /\ UNCHANGED <<dailyLeads, pendingJobs>>
    /\ QuotaFrame

\* mutant of BulkCheckRemaining: the batch is cut to what remains (one lead is
\* created and enqueued) before the 429 is answered
BulkCheckRemainingPartial(r) ==
    /\ req[r].pc = "usage"
    /\ IF req[r].n > remaining_daily_leads(dailyLeads,
                            plan_name_of(subscriptions, req[r].org), req[r].org)
       THEN /\ dailyLeads' = Append(dailyLeads, req[r].leadOrg)
            /\ pendingJobs' = pendingJobs \cup {Len(dailyLeads) + 1}
            /\ req' = [req EXCEPT ![r].created = @ \cup {Len(dailyLeads) + 1},
                                  ![r].status = 429, ![r].pc = "done"]
       ELSE /\ req' = [req EXCEPT ![r].pc = "create"]
            /\ UNCHANGED <<dailyLeads, pendingJobs>>
    /\ QuotaFrame

\* create_leads_from_urls, lines 62-68: the batch must fit in what remains, else 429
BulkCheckRemaining(r) ==
    /\ req[r].pc = "usage"
    /\ req' = IF req[r].n > remaining_daily_leads(dailyLeads,
                                plan_name_of(subscriptions, req[r].org), req[r].org)
              THEN Respond(r, 429)
              ELSE [req EXCEPT ![r].pc = "create"]
    /\ UNCHANGED <<dailyLeads, pendingJobs>>
    /\ QuotaFrame

\* create_leads_from_urls, lines 70-84: one Lead row and one background job per url
BulkCreateLead(r) ==
    /\ req[r].pc = "create"
    /\ req[r].kind = "bulk"
    /\ CreateLeadFor(r)
    /\ QuotaFrame

\* create_lead_endpoint, lines 95-107: the request arrives; 403 unless the lead is
\* for the caller's organization and the caller is its owner
PostLeadsSingle(r, org, leadOrg, ownerIsCaller) ==
    /\ req[r].pc = "idle"
    /\ req' = [req EXCEPT ![r] =
                 [IdleReq EXCEPT !.kind = "single", !.org = org, !.leadOrg = leadOrg, !.n = 1,
                                 !.pc = IF org # leadOrg \/ ~ownerIsCaller
                                        THEN "done" ELSE "can_create",
                                 !.status = IF org # leadOrg \/ ~ownerIsCaller
                                            THEN 403 ELSE 0]]
    /\ UNCHANGED <<dailyLeads, pendingJobs>>
    /\ QuotaFrame

\* create_lead_endpoint, lines 109-115: can_create_lead, else 429
SingleCanCreateLead(r) ==
    /\ req[r].pc = "can_create"
    /\ req[r].kind = "single"
    /\ req' = IF can_create_lead(dailyLeads, plan_name_of(subscriptions, req[r].org), req[r].org)
              THEN [req EXCEPT ![r].pc = "create"]
              ELSE Respond(r, 429)
    /\ UNCHANGED <<dailyLeads, pendingJobs>>
    /\ QuotaFrame

\* create_lead_endpoint, lines 117-123
SingleCreateLead(r) ==
    /\ req[r].pc = "create"
    /\ req[r].kind = "single"
    /\ CreateLeadFor(r)
    /\ QuotaFrame

InitQuota ==
    /\ dailyLeads = <<>>
    /\ pendingJobs = {}
    /\ req = [r \in Reqs |-> IdleReq]
    /\ calls = <<>>
    /\ ApiIdle
    /\ subscriptions \in SubscriptionTables(NumOrgs)
    /\ ScrapeIdle
    /\ EnrichIdle
    /\ PipelineIdle

NextQuota ==
    \/ \E r \in Reqs, org \in Orgs, n \in 0..MaxUrls : PostLeads(r, org, n)
    \/ \E r \in Reqs : BulkCanCreateLead(r)
    \/ \E r \in Reqs : BulkCheckRemaining(r)
    \/ \E r \in Reqs : BulkCreateLead(r)
    \/ \E r \in Reqs, org \in Orgs, leadOrg \in 1..(NumOrgs + 1), own \in BOOLEAN :
          PostLeadsSingle(r, org, leadOrg, own)   \* the body may name any organization
    \/ \E r \in Reqs : SingleCanCreateLead(r)
    \/ \E r \in Reqs : SingleCreateLead(r)

SpecQuota == InitQuota /\ [][NextQuota]_vars

\* C1: the number of today's Leads of an organization never exceeds the daily cap
\* of its plan, whatever the interleaving of the creation requests.
DailyQuotaNeverExceeded ==
    \A o \in Orgs :
        get_daily_usage(dailyLeads, o) <= max_leads_per_day(plan_name_of(subscriptions, o))

\* C2: a request answered 429 has created no Lead row and enqueued no job.
Rejected429CreatesNothing ==
    \A r \in Reqs :
        req[r].status = 429 =>
            /\ req[r].created = {}
            /\ \A id \in pendingJobs : \E q \in Reqs : id \in req[q].created /\ req[q].status # 429

\* C2 witness: a batch of two is answered 429 while one more lead would have fitted
\* (a lead of the organization exists and one is left of its cap).
PartialBatchRejected ==
    \E r \in Reqs :
        /\ req[r].kind = "bulk"
        /\ req[r].status = 429
        /\ req[r].n = 2
        /\ remaining_daily_leads(dailyLeads, plan_name_of(subscriptions, req[r].org),
                                 req[r].org) = 1

(***************************************************************************)
(* process_lead_task(lead_id), one stage per step                          *)
(*                                                                         *)
(* process_lead_async calls the task function directly in an executor (it  *)
(* is never sent to a worker with delay or apply_async).  The stages of    *)
(* one job run in order; every create_*_log and update_lead commits.  The  *)
(* model runs one job at a time, MaxRuns jobs in all.                      *)
(***************************************************************************)
MaxRuns == 2

\* max_retries of the task decorator and of self.retry
MaxRetries == 3

\* the stages inside the try block
TryStages == {"scrape", "log_scrape", "merge_scrape", "gate1", "log_enrich", "merge_enrich",
              "score", "gate2", "persist_message", "commit"}

\* the job returns or raises: it becomes the most recent finished job
Finish(j, lead) ==
    /\ job' = j
    /\ lastRun' = Run(j, lead)
    /\ prevRun' = lastRun

\* lines 58-66: the task function is called with a lead id (by the background task
\* of a creation request, by POST /leads/{id}/process, or by name with any id); a
\* missing lead ends the job with an error result
StartJob(lead_id) ==
    LET j == [IdleJob EXCEPT !.run = job.run + 1, !.lead_id = lead_id, !.attempts = 1,
                             !.sessions = {"db"},
                             !.logs_before = <<Len(scrapingLogs), Len(enrichmentLogs)>>]
    IN  /\ job.pc \in {"idle", "done"}
        /\ job.run < MaxRuns
        /\ IF lead_id \in DOMAIN leads
           THEN /\ job' = [j EXCEPT !.pc = "scrape", !.before = leads[lead_id]]
                /\ UNCHANGED <<lastRun, prevRun>>
           ELSE Finish([j EXCEPT !.pc = "done", !.outcome = "error", !.sessions = {}],
                       NewLead(0))
        /\ UNCHANGED <<leads, scrapingLogs, enrichmentLogs, aiEnv, subscriptions>>
        /\ PipelineFrame

\* lines 68-101: scrape the website of the lead; s is what the site serves
ScrapeWebsite(s) ==
    /\ job.pc = "scrape"
    /\ job' = [job EXCEPT !.scraping_result = scrape(s), !.pc = "log_scrape"]
    /\ UNCHANGED <<leads, scrapingLogs, enrichmentLogs, aiEnv, subscriptions, lastRun, prevRun>>
    /\ PipelineFrame

\* lines 103-129: the ScrapingLog row, then the branch on success
LogScrape ==
    /\ job.pc = "log_scrape"
    /\ scrapingLogs' = Append(scrapingLogs, ScrapingLog(job.lead_id, job.scraping_result))
    /\ job' = [job EXCEPT !.pc = IF job.scraping_result.success THEN "merge_scrape"
                                 ELSE "gate1"]
    /\ UNCHANGED <<leads, enrichmentLogs, aiEnv, subscriptions, lastRun, prevRun>>
    /\ PipelineFrame

\* lines 130-158: merge the scraped fields into the lead
MergeScrape ==
    /\ job.pc = "merge_scrape"
    /\ leads' = [leads EXCEPT ![job.lead_id] =
                    update_lead(@, scrape_update_data(job.scraping_result))]
    /\ job' = [job EXCEPT !.pc = "gate1"]
    /\ UNCHANGED <<scrapingLogs, enrichmentLogs, aiEnv, subscriptions, lastRun, prevRun>>
    /\ PipelineFrame

\* lines 160-182: the first AI gate and the Enricher; llm is the reply the model
\* provider gives when it is asked.  db_subscription is opened before the check
\* and closed after the Enricher returned, so it is open in no state of a job
\* that goes on.
EnrichLead(llm) ==
    LET lead == leads[job.lead_id]
        result == enrich_lead_data(lead,
                                   IF job.scraping_result.success
                                   THEN job.scraping_result.data ELSE NoData,
                                   llm)
    IN  /\ job.pc = "gate1"
        /\ IF can_use_ai_features(subscriptions, aiEnv, lead.organization_id)
           THEN job' = [job EXCEPT !.gate1 = "open", !.enricher_invoked = TRUE,
                                   !.llm = llm, !.enrichment_result = result,
                                   !.pc = IF result.success THEN "log_enrich" ELSE "score"]
           ELSE job' = [job EXCEPT !.gate1 = "closed", !.pc = "score"]
        /\ UNCHANGED <<leads, scrapingLogs, enrichmentLogs, aiEnv, subscriptions,
                       lastRun, prevRun>>
        /\ PipelineFrame

\* lines 183-200: the EnrichmentLog row
LogEnrichment ==
    /\ job.pc = "log_enrich"
    /\ enrichmentLogs' = Append(enrichmentLogs,
                                LeadEnrichmentLog(job.lead_id, job.enrichment_result))
    /\ job' = [job EXCEPT !.pc = "merge_enrich"]
    /\ UNCHANGED <<leads, scrapingLogs, aiEnv, subscriptions, lastRun, prevRun>>
    /\ PipelineFrame

\* lines 202-227: merge the enriched fields into the lead
MergeEnrichment ==
    /\ job.pc = "merge_enrich"
    /\ leads' = [leads EXCEPT ![job.lead_id] =
                    update_lead(@, enrichment_update_data(job.enrichment_result))]
    /\ job' = [job EXCEPT !.pc = "score"]
    /\ UNCHANGED <<scrapingLogs, enrichmentLogs, aiEnv, subscriptions, lastRun, prevRun>>
    /\ PipelineFrame

\* lines 229-241: score the lead and update it with the score
ScoreLead ==
    LET score_result == score_lead(leads[job.lead_id]) IN
    /\ job.pc = "score"
    /\ leads' = [leads EXCEPT ![job.lead_id] = update_lead(@, score_update_data(score_result))]
    /\ job' = [job EXCEPT !.score_result = score_result, !.pc = "gate2"]
    /\ UNCHANGED <<scrapingLogs, enrichmentLogs, aiEnv, subscriptions, lastRun, prevRun>>
    /\ PipelineFrame

\* lines 243-261: the second AI gate and the Messenger; reply is what the model
\* provider answers (GROQ_API_KEY is the credential of both LLM calls)
GenerateMessage(reply) ==
    LET lead == leads[job.lead_id] IN
    /\ job.pc = "gate2"
    /\ job.enricher_invoked => reply.key = job.llm.key
    /\ IF can_use_ai_features(subscriptions, aiEnv, lead.organization_id)
       THEN job' = [job EXCEPT !.gate2 = "open", !.messenger_invoked = TRUE,
                               !.reply = reply,
                               !.outreach_message = generate_message(lead, reply),
                               !.pc = "persist_message"]
       ELSE job' = [job EXCEPT !.gate2 = "closed",
                               !.outreach_message = AiNotAvailableMessage,
                               !.pc = "persist_message"]
    /\ UNCHANGED <<leads, scrapingLogs, enrichmentLogs, aiEnv, subscriptions, lastRun, prevRun>>
    /\ PipelineFrame

\* lines 263-268: persist the outreach message
PersistMessage ==
    /\ job.pc = "persist_message"
    /\ leads' = IF job.outreach_message # NoMessage
                THEN [leads EXCEPT ![job.lead_id] =
                         update_lead(@, [outreach_message |-> job.outreach_message])]
                ELSE leads
    /\ job' = [job EXCEPT !.pc = "commit"]
    /\ UNCHANGED <<scrapingLogs, enrichmentLogs, aiEnv, subscriptions, lastRun, prevRun>>
    /\ PipelineFrame

\* lines 270-279: commit and return the success result
Commit ==
    /\ job.pc = "commit"
    /\ Finish([job EXCEPT !.pc = "done", !.outcome = "success", !.sessions = {}],
              leads[job.lead_id])
    /\ UNCHANGED <<leads, scrapingLogs, enrichmentLogs, aiEnv, subscriptions>>
    /\ PipelineFrame

\* a handler that would undo the job: the Lead row as it was loaded, and the two
\* log tables cut back to their sizes at the start of the job
RaiseInJobRollingBack ==
    /\ job.pc \in TryStages
    /\ leads' = [leads EXCEPT ![job.lead_id] = job.before]
    /\ scrapingLogs' = SubSeq(scrapingLogs, 1, job.logs_before[1])
    /\ enrichmentLogs' = SubSeq(enrichmentLogs, 1, job.logs_before[2])
    /\ Finish([job EXCEPT !.pc = "done", !.outcome = "raised", !.fault = TRUE,
                           !.sessions = {}], job.before)
    /\ UNCHANGED <<aiEnv, subscriptions>>
    /\ PipelineFrame

\* lines 281-287: a statement of the try block raises (the database, the thread
\* pool or the schema validation fails).  The handler calls self.retry; the task
\* was called directly, so retry re-raises the exception instead of scheduling
\* another attempt, and the exception leaves the task function.  finally closes
\* db (line 287).  db_subscription is closed by a statement of its own after the
\* gate (lines 180 and 261): an exception raised between SessionLocal() and that
\* statement (in_gate: by the query of can_use_ai_features, by the Enricher or by
\* the Messenger) passes it by.
RaiseInJob ==
    /\ job.pc \in TryStages
    /\ \E in_gate \in BOOLEAN :
          /\ in_gate => job.pc \in {"gate1", "gate2"}
          /\ Finish([job EXCEPT !.pc = "done", !.outcome = "raised", !.fault = TRUE,
                                !.sessions = IF in_gate THEN {"db_subscription"} ELSE {}],
                    leads[job.lead_id])
    /\ UNCHANGED <<leads, scrapingLogs, enrichmentLogs, aiEnv, subscriptions>>
    /\ PipelineFrame

InitPipeline ==
    /\ QuotaIdle
    /\ ScrapeIdle
    /\ EnrichIdle
    /\ subscriptions \in SubscriptionTables(1)
    /\ calls = <<>>
    /\ ApiIdle
    /\ leads = [id \in LeadIds |-> NewLead(1)]
    /\ scrapingLogs = <<>>
    /\ enrichmentLogs = <<>>
    /\ aiEnv \in AiEnvs
    /\ job = IdleJob
    /\ lastRun = NoRun
    /\ prevRun = NoRun

NextPipeline ==
    \/ \E lead_id \in LeadIds \cup {0} : StartJob(lead_id)
    \/ \E s \in PipelineSites : ScrapeWebsite(s)
    \/ LogScrape
    \/ MergeScrape
    \/ \E llm \in PipelineLlmReplies : EnrichLead(llm)
    \/ LogEnrichment
    \/ MergeEnrichment
    \/ ScoreLead
    \/ \E reply \in PipelineMessageReplies : GenerateMessage(reply)
    \/ PersistMessage
    \/ Commit
    \/ RaiseInJob

SpecPipeline == InitPipeline /\ [][NextPipeline]_vars

\* C3: after a job completed with status success, the Lead's score is the total
\* score the Scorer computed in that job and its qualification_label is the
\* Scorer's label, one of Hot Lead, Warm Lead, Cold Lead, Disqualified.
ScoreWrittenOnSuccess ==
    (job.pc = "done" /\ job.outcome = "success") =>
        /\ leads[job.lead_id].score = job.score_result.total_score
        /\ leads[job.lead_id].qualification_label = job.score_result.qualification_label
        /\ leads[job.lead_id].qualification_label
              \in {"Hot Lead", "Warm Lead", "Cold Lead", "Disqualified"}

\* C4: when the Scorer of a job is about to read the Lead, the Lead's
\* scrape_confidence and scrape_source are those of the job's successful scraping
\* result, and its enrichment_confidence and enrichment_source those of the
\* result the Enricher returned.
ConfidencesWrittenForScorer ==
    job.pc = "score" =>
        /\ job.scraping_result.success =>
              /\ leads[job.lead_id].scrape_confidence = job.scraping_result.confidence
              /\ leads[job.lead_id].scrape_source = job.scraping_result.method
        /\ job.enrichment_result.success =>
              /\ leads[job.lead_id].enrichment_confidence = job.enrichment_result.confidence
              /\ leads[job.lead_id].enrichment_source = job.enrichment_result.method

\* C6: when scrape returned success=false in a job, the job appends one
\* ScrapingLog row with success=false, never enters the merge step, leaves
\* company_name, about_text, email, phone, linkedin_url, scrape_confidence and
\* scrape_source as it loaded them, runs once, and unless a statement raises it
\* goes on through the AI gate, the scoring and the message to the success result.
FailedScrapeIsSoft ==
    LET result == job.scraping_result
        lead == leads[job.lead_id]
        ScrapeFields(l) == <<l.company_name, l.about_text, l.email, l.phone, l.linkedin_url,
                             l.scrape_confidence, l.scrape_source>>
        rows == Len(scrapingLogs) - job.logs_before[1]
    IN  (job.lead_id \in DOMAIN leads /\ result.method # "none" /\ ~result.success) =>
            /\ job.pc # "merge_scrape"
            /\ job.attempts = 1
            /\ rows \in {0, 1}
            /\ rows = 1 =>
                  /\ scrapingLogs[Len(scrapingLogs)].success = FALSE
                  /\ scrapingLogs[Len(scrapingLogs)].lead_id = job.lead_id
            /\ (job.pc # "log_scrape" /\ ~job.fault) => rows = 1
            /\ ScrapeFields(lead) = ScrapeFields(job.before)
            /\ ~job.fault =>
                  job.pc \in {"log_scrape", "gate1", "log_enrich", "merge_enrich", "score",
                              "gate2", "persist_message", "commit", "done"}
            /\ (job.pc = "done" /\ ~job.fault) =>
                  /\ job.outcome = "success"
                  /\ job.gate1 # "unset"
                  /\ job.score_result # NoScore
                  /\ job.gate2 # "unset"
                  /\ lead.outreach_message = job.outreach_message

\* C6 witness: the second job of a lead finds every tier failing after the first
\* job had merged scraped fields; it ends with the success result.
FailedScrapeAfterMergedOne ==
    /\ job.pc = "done"
    /\ job.outcome = "success"
    /\ job.scraping_result.method = "playwright"
    /\ ~job.scraping_result.success
    /\ job.before.company_name = "Acme Software"
    /\ scrapingLogs[Len(scrapingLogs)].success = FALSE

\* C8: a gate of a job is open exactly when CAN_USE_AI of the plan of the lead's
\* organization is "true".  With the first gate closed the Enricher is not invoked,
\* no EnrichmentLog row is appended and the enrichment fields of the Lead stay as
\* loaded; with the second gate closed the Messenger is not invoked and the fixed
\* text is what the job persists as outreach_message.  With a gate open the
\* Enricher, respectively the Messenger, is invoked, and a job that succeeds has
\* passed both gates.
AiGatesRespected ==
    LET lead == leads[job.lead_id]
        allowed == plan_name_of(subscriptions, lead.organization_id) \in aiEnv
        EnrichmentFields(l) == <<l.industry, l.employees, l.revenue_band, l.founded_year,
                                 l.contact_name, l.contact_title, l.enrichment_confidence,
                                 l.enrichment_source>>
    IN  job.lead_id \in DOMAIN leads =>
            /\ job.gate1 # "unset" => (job.gate1 = "open" <=> allowed)
            /\ job.gate2 # "unset" => (job.gate2 = "open" <=> allowed)
            /\ job.gate1 # "open" =>
                  /\ ~job.enricher_invoked
                  /\ job.enrichment_result = NoEnrichment
                  /\ Len(enrichmentLogs) = job.logs_before[2]
                  /\ EnrichmentFields(lead) = EnrichmentFields(job.before)
            /\ job.gate1 = "open" => job.enricher_invoked
            /\ job.gate2 # "open" => ~job.messenger_invoked
            /\ job.gate2 = "closed" =>
                  /\ job.outreach_message = AiNotAvailableMessage
                  /\ (job.pc = "commit" \/ job.outcome = "success") =>
                        lead.outreach_message = AiNotAvailableMessage
            /\ job.gate2 = "open" =>
                  /\ job.messenger_invoked
                  /\ job.outreach_message \notin {NoMessage, AiNotAvailableMessage}
            /\ job.outcome = "success" => job.gate1 # "unset" /\ job.gate2 # "unset"

\* C8 witness: a job of a lead whose organization is on the pro plan, with
\* CAN_USE_AI_PRO not "true", succeeded after a successful scrape and left the
\* fixed text as outreach_message.
SentinelPersisted ==
    /\ job.outcome = "success"
    /\ job.scraping_result.success
    /\ job.gate1 = "closed"
    /\ job.gate2 = "closed"
    /\ plan_name_of(subscriptions, 1) = "pro"
    /\ leads[1].outreach_message = AiNotAvailableMessage

\* C9: a job that ended by raising its exception to the caller has used up its
\* retries: the task body ran 1 + max_retries times.
FailureOnlyAfterRetries ==
    job.outcome = "raised" => job.attempts = 1 + MaxRetries

\* C10: when two jobs of the same lead succeed one after the other with the same
\* upstream responses (scraping result, replies of the model provider) and the
\* same decisions of the AI gates, the Lead row after the second equals the Lead
\* row after the first.
RerunLeavesLeadUnchanged ==
    (/\ lastRun.outcome = "success"
     /\ prevRun.outcome = "success"
     /\ lastRun.lead_id = prevRun.lead_id
     /\ lastRun.scraping_result = prevRun.scraping_result
     /\ lastRun.llm = prevRun.llm
     /\ lastRun.reply = prevRun.reply
     /\ lastRun.gate1 = prevRun.gate1
     /\ lastRun.gate2 = prevRun.gate2)
    => lastRun.lead = prevRun.lead

\* C10 witness: two successful jobs in sequence with the same responses, in which
\* the scrape succeeded, the LLM enriched the lead and the Messenger ran.
SameResponsesTwice ==
    /\ lastRun.outcome = "success"
    /\ prevRun.outcome = "success"
    /\ lastRun.scraping_result = prevRun.scraping_result
    /\ lastRun.scraping_result.success
    /\ lastRun.llm = prevRun.llm
    /\ lastRun.reply = prevRun.reply
    /\ lastRun.gate1 = "open"
    /\ prevRun.lead.enrichment_source = "none"
    /\ prevRun.lead.industry = "Fintech"
    /\ lastRun.lead.outreach_message.kind = "llm_with_greeting"

(***************************************************************************)
(* PUT /leads/{id} and DELETE /leads/{id} beside the pipeline job          *)
(* (api/endpoints/leads.py)                                                *)
(*                                                                         *)
(* The job runs in a thread of the server's executor; the requests of the  *)
(* lead endpoints are served meanwhile, so an update or a soft delete can  *)
(* fall between two statements of a job.                                   *)
(***************************************************************************)
\* a page the headless browser renders in full, and a site that is down
LeadsSites ==
    { Site(Unreachable, Unreachable, BrowserDown),
      Site(Unreachable, Unreachable, BrowserFull) }

\* a reply of the model provider whose values are outside the prompt's format: a
\* head count for employees and a founding year of 1850
OffFormatReply ==
    LlmReply(TRUE, "json", [NoEnrichData EXCEPT !.keys = {"employees", "founded_year"},
                                                !.employees = "120",
                                                !.founded_year = 1850])

LeadsLlmReplies == {OffFormatReply}

\* request bodies of PUT /leads/{id}: lead_update.dict(exclude_unset=True)
PutBodies == {[employees |-> "51-200", founded_year |-> 1800]}

\* update_lead_endpoint, lines 164-187: 404 for a missing lead, 403 for a lead of
\* another organization (nothing is written in either case), else update_lead
UpdateLeadEndpoint(lead_id, org, lead_update) ==
    /\ lead_id \in DOMAIN leads
    /\ leads[lead_id].organization_id = org
    /\ leads' = [leads EXCEPT ![lead_id] = update_lead(@, lead_update)]
    /\ UNCHANGED <<scrapingLogs, enrichmentLogs, aiEnv, subscriptions, job, lastRun, prevRun>>
    /\ PipelineFrame

\* mutant of DeleteLeadEndpoint: the row is deleted with its log rows
DeleteLeadWithLogs(lead_id, org) ==
    /\ lead_id \in DOMAIN leads
    /\ leads[lead_id].organization_id = org
    /\ leads[lead_id].is_active
    /\ leads' = [leads EXCEPT ![lead_id].is_active = FALSE]
    /\ scrapingLogs' = SelectSeq(scrapingLogs, LAMBDA row : row.lead_id # lead_id)
    /\ enrichmentLogs' = SelectSeq(enrichmentLogs, LAMBDA row : row.lead_id # lead_id)
    /\ UNCHANGED <<aiEnv, subscriptions, job, lastRun, prevRun>>
    /\ PipelineFrame

\* delete_lead_endpoint, lines 190-218, with crud.delete_lead: a soft delete, the
\* row stays with is_active = False
DeleteLeadEndpoint(lead_id, org) ==
    /\ lead_id \in DOMAIN leads
    /\ leads[lead_id].organization_id = org
    /\ leads[lead_id].is_active
    /\ leads' = [leads EXCEPT ![lead_id].is_active = FALSE]
    /\ UNCHANGED <<scrapingLogs, enrichmentLogs, aiEnv, subscriptions, job, lastRun, prevRun>>
    /\ PipelineFrame

NextLeads ==
    \/ \E lead_id \in LeadIds \cup {0} : StartJob(lead_id)
    \/ \E s \in LeadsSites : ScrapeWebsite(s)
    \/ LogScrape
    \/ MergeScrape
    \/ \E llm \in LeadsLlmReplies : EnrichLead(llm)
    \/ LogEnrichment
    \/ MergeEnrichment
    \/ ScoreLead
    \/ GenerateMessage(MessageReply(TRUE, "text", TRUE))
    \/ PersistMessage
    \/ Commit
    \/ RaiseInJob
    \/ \E lead_id \in LeadIds, lead_update \in PutBodies :
          UpdateLeadEndpoint(lead_id, 1, lead_update)
    \/ \E lead_id \in LeadIds : DeleteLeadEndpoint(lead_id, 1)

\* the lead of an organization on the pro plan, created and not yet processed
InitLeads ==
    /\ QuotaIdle
    /\ ScrapeIdle
    /\ EnrichIdle
    /\ subscriptions = <<NewSubscription(1, "pro")>>
    /\ calls = <<>>
    /\ ApiIdle
    /\ leads = [id \in LeadIds |-> NewLead(1)]
    /\ scrapingLogs = <<>>
    /\ enrichmentLogs = <<>>
    /\ aiEnv \in AiEnvs
    /\ job = IdleJob
    /\ lastRun = NoRun
    /\ prevRun = NoRun

SpecLeads == InitLeads /\ [][NextLeads]_vars

\* C11: the log tables are append-only.  No step (of a job, a re-run, a PUT or a
\* soft delete) removes or changes a row of scraping_logs or lead_enrichment_logs:
\* after every step each table begins with the table as it was.  A job of an
\* existing lead appends at most one ScrapingLog row, and exactly one once it is
\* past its log statement; a job that returned success has appended exactly one.
LogsAppendOnly ==
    /\ [][/\ Len(scrapingLogs') >= Len(scrapingLogs)
          /\ SubSeq(scrapingLogs', 1, Len(scrapingLogs)) = scrapingLogs
          /\ Len(enrichmentLogs') >= Len(enrichmentLogs)
          /\ SubSeq(enrichmentLogs', 1, Len(enrichmentLogs)) = enrichmentLogs]_vars
    /\ [](job.lead_id \in DOMAIN leads =>
             LET rows == Len(scrapingLogs) - job.logs_before[1] IN
             /\ rows \in {0, 1}
             /\ (~job.fault /\ job.pc \notin {"scrape", "log_scrape"}) => rows = 1
             /\ job.outcome = "success" => rows = 1)

\* C11 witness: the lead was updated by a PUT and soft-deleted, and a second job
\* succeeded on it; the table holds the rows of both jobs, the first as written.
SecondRunOnDeletedLead ==
    /\ job.run = 2
    /\ job.outcome = "success"
    /\ ~leads[1].is_active
    /\ leads[1].founded_year = 1800
    /\ Len(scrapingLogs) = 2
    /\ scrapingLogs[1].success
    /\ ~scrapingLogs[2].success
    /\ Len(enrichmentLogs) >= 1

(***************************************************************************)
(* Billing: register, POST /billing/upgrade, POST /billing/cancel, and the *)
(* operations of StripeService that create a subscription                  *)
(* (api/endpoints/auth.py, api/endpoints/billing.py,                       *)
(* billing/subscription_service.py, billing/stripe_service.py)             *)
(*                                                                         *)
(* The subscriptions table has no unique constraint on organization_id.    *)
(* An operation that looks a row up and then inserts or updates is two     *)
(* database statements; operations of different server processes           *)
(* interleave between them.  An organization exists from the moment its    *)
(* register call has committed the organization and the user.              *)
(***************************************************************************)
NumCalls == 3

Calls == 1..NumCalls

\* valid_plans of assign_plan_to_organization
valid_plans == {"free", "pro", "enterprise"}

\* the plan names a caller passes to POST /billing/upgrade
RequestedPlans == valid_plans \cup {"gold"}

\* DEFAULT_PLAN of the environment (default "free")
DefaultPlan == "free"

\* _get_plan_name_from_id
get_plan_name_from_id(plan_id) ==
    CASE plan_id = "price_123" -> "starter"
      [] plan_id = "price_456" -> "pro"
      [] plan_id = "price_789" -> "enterprise"
      [] OTHER -> "unknown"

\* a call that has not been made; found is the position of the row the lookup
\* returned (0: none), result the value returned ("none" before the return)
IdleCall ==
    [op |-> "none", org |-> 0, plan_name |-> NULL, immediate |-> FALSE, pc |-> "idle",
     found |-> 0, result |-> "none"]

OrgExists(org) == \E c \in Calls : calls[c].op = "register" /\ calls[c].org = org

\* the calls are numbered in the order they begin
MayBegin(c) == calls[c].pc = "idle" /\ (IF c = 1 THEN TRUE ELSE calls[c - 1].pc # "idle")

\* the position of the row .filter(organization_id == org).first() returns, 0 for None
first_position(subs, org) ==
    IF has_subscription(subs, org)
    THEN CHOOSE i \in DOMAIN subs :
            /\ subs[i].organization_id = org
            /\ \A j \in DOMAIN subs : subs[j].organization_id = org => i <= j
    ELSE 0

\* get_organization_usage: the plan name and the daily cap reported
get_organization_usage(subs, org) ==
    [plan_name |-> plan_name_of(subs, org),
     max_leads_per_day |-> max_leads_per_day(plan_name_of(subs, org))]

\* register_user, lines 33-67: the organization and the user are committed; the
\* default plan is assigned next
Register(c, org) ==
    /\ MayBegin(c)
    /\ ~OrgExists(org)
    /\ \A o \in Orgs : o < org => OrgExists(o)
    /\ calls' = [calls EXCEPT ![c] = [IdleCall EXCEPT !.op = "register", !.org = org,
                                                     !.plan_name = DefaultPlan,
                                                     !.pc = "lookup"]]
    /\ UNCHANGED subscriptions
    /\ UNCHANGED <<quotaVars, apiVars, scrapeVars, enrichVars, pipelineVars>>

\* upgrade_plan, lines 36-48: a user of the organization posts a plan name
Upgrade(c, org, plan_name) ==
    /\ MayBegin(c)
    /\ OrgExists(org)
    /\ calls' = [calls EXCEPT ![c] = [IdleCall EXCEPT !.op = "upgrade", !.org = org,
                                                     !.plan_name = plan_name,
                                                     !.pc = "lookup"]]
    /\ UNCHANGED subscriptions
    /\ UNCHANGED <<quotaVars, apiVars, scrapeVars, enrichVars, pipelineVars>>

\* assign_plan_to_organization, lines 161-171: an invalid plan name returns False;
\* else the existing subscription is looked up
AssignLookup(c) ==
    /\ calls[c].pc = "lookup"
    /\ calls[c].op \in {"register", "upgrade"}
    /\ calls' = IF calls[c].plan_name \notin valid_plans
                THEN [calls EXCEPT ![c].pc = "done", ![c].result = "false"]
                ELSE [calls EXCEPT ![c].pc = "write",
                                   ![c].found = first_position(subscriptions, calls[c].org)]
    /\ UNCHANGED subscriptions
    /\ UNCHANGED <<quotaVars, apiVars, scrapeVars, enrichVars, pipelineVars>>

\* mutant of AssignWrite: an existing subscription is set active again but keeps
\* its plan
AssignWriteStatusOnly(c) ==
    /\ calls[c].pc = "write"
    /\ calls[c].op \in {"register", "upgrade"}
    /\ subscriptions' =
          IF calls[c].found # 0
          THEN [subscriptions EXCEPT ![calls[c].found].status = "active"]
          ELSE Append(subscriptions, NewSubscription(calls[c].org, calls[c].plan_name))
    /\ calls' = [calls EXCEPT ![c].pc = "done", ![c].result = "true"]
    /\ UNCHANGED <<quotaVars, apiVars, scrapeVars, enrichVars, pipelineVars>>

\* assign_plan_to_organization, lines 173-190: update the row found, or insert a
\* new one, and commit
AssignWrite(c) ==
    /\ calls[c].pc = "write"
    /\ calls[c].op \in {"register", "upgrade"}
    /\ subscriptions' =
          IF calls[c].found # 0
          THEN [subscriptions EXCEPT ![calls[c].found].plan_name = calls[c].plan_name,
                                     ![calls[c].found].status = "active"]
          ELSE Append(subscriptions, NewSubscription(calls[c].org, calls[c].plan_name))
    /\ calls' = [calls EXCEPT ![c].pc = "done", ![c].result = "true"]
    /\ UNCHANGED <<quotaVars, apiVars, scrapeVars, enrichVars, pipelineVars>>

\* mutant of CancelSubscription: an immediate cancellation puts the organization
\* back on the free plan
CancelToFree(c, org, immediate) ==
    LET i == first_position(subscriptions, org) IN
    /\ MayBegin(c)
    /\ OrgExists(org)
    /\ IF i = 0
       THEN /\ UNCHANGED subscriptions
            /\ calls' = [calls EXCEPT ![c] = [IdleCall EXCEPT !.op = "cancel", !.org = org,
                                                             !.immediate = immediate,
                                                             !.pc = "done",
                                                             !.result = "false"]]
       ELSE /\ subscriptions' =
                  IF immediate
                  THEN [subscriptions EXCEPT ![i].status = "canceled",
                                             ![i].plan_name = "free",
                                             ![i].cancel_at_period_end = FALSE]
                  ELSE [subscriptions EXCEPT ![i].cancel_at_period_end = TRUE,
                                             ![i].status = "active"]
            /\ calls' = [calls EXCEPT ![c] = [IdleCall EXCEPT !.op = "cancel", !.org = org,
                                                             !.immediate = immediate,
                                                             !.pc = "done", !.found = i,
                                                             !.result = "true"]]
    /\ UNCHANGED <<quotaVars, apiVars, scrapeVars, enrichVars, pipelineVars>>

\* POST /billing/cancel with SubscriptionService.cancel_subscription, lines 192-215:
\* the row is written by its primary key, so the call is one step
CancelSubscription(c, org, immediate) ==
    LET i == first_position(subscriptions, org) IN
    /\ MayBegin(c)
    /\ OrgExists(org)
    /\ IF i = 0
       THEN /\ UNCHANGED subscriptions
            /\ calls' = [calls EXCEPT ![c] = [IdleCall EXCEPT !.op = "cancel", !.org = org,
                                                             !.immediate = immediate,
                                                             !.pc = "done",
                                                             !.result = "false"]]
       ELSE /\ subscriptions' =
                  IF immediate
                  THEN [subscriptions EXCEPT ![i].status = "canceled",
                                             ![i].cancel_at_period_end = FALSE]
                  ELSE [subscriptions EXCEPT ![i].cancel_at_period_end = TRUE,
                                             ![i].status = "active"]
            /\ calls' = [calls EXCEPT ![c] = [IdleCall EXCEPT !.op = "cancel", !.org = org,
                                                             !.immediate = immediate,
                                                             !.pc = "done", !.found = i,
                                                             !.result = "true"]]
    /\ UNCHANGED <<quotaVars, apiVars, scrapeVars, enrichVars, pipelineVars>>

\* StripeService.create_subscription, lines 61-107: after the provider created the
\* subscription a local row is inserted, whether or not the organization has one
StripeCreateSubscription(c, org, plan_id) ==
    /\ MayBegin(c)
    /\ OrgExists(org)
    /\ subscriptions' = Append(subscriptions, NewSubscription(org, get_plan_name_from_id(plan_id)))
    /\ calls' = [calls EXCEPT ![c] = [IdleCall EXCEPT !.op = "stripe_create", !.org = org,
                                                     !.plan_name = get_plan_name_from_id(plan_id),
                                                     !.pc = "done", !.result = "true"]]
    /\ UNCHANGED <<quotaVars, apiVars, scrapeVars, enrichVars, pipelineVars>>

\* handle_webhook with _handle_subscription_created, lines 227-240: the event of
\* an organization arrives and the local row is looked up
WebhookSubscriptionCreated(c, org, plan_id) ==
    /\ MayBegin(c)
    /\ OrgExists(org)
    /\ calls' = [calls EXCEPT ![c] = [IdleCall EXCEPT !.op = "webhook_created", !.org = org,
                                                     !.plan_name = get_plan_name_from_id(plan_id),
                                                     !.pc = "write",
                                                     !.found = first_position(subscriptions, org)]]
    /\ UNCHANGED subscriptions
    /\ UNCHANGED <<quotaVars, apiVars, scrapeVars, enrichVars, pipelineVars>>

\* _handle_subscription_created, lines 241-256: update the row found (plan and
\* the status of the event, "active" for a new subscription) or insert one
WebhookWrite(c) ==
    /\ calls[c].pc = "write"
    /\ calls[c].op = "webhook_created"
    /\ subscriptions' =
          IF calls[c].found # 0
          THEN [subscriptions EXCEPT ![calls[c].found].plan_name = calls[c].plan_name,
                                     ![calls[c].found].status = "active"]
          ELSE Append(subscriptions, NewSubscription(calls[c].org, calls[c].plan_name))
    /\ calls' = [calls EXCEPT ![c].pc = "done", ![c].result = "true"]
    /\ UNCHANGED <<quotaVars, apiVars, scrapeVars, enrichVars, pipelineVars>>

InitBilling ==
    /\ QuotaIdle
    /\ ScrapeIdle
    /\ EnrichIdle
    /\ PipelineIdle
    /\ subscriptions = <<>>
    /\ calls = [c \in Calls |-> IdleCall]
    /\ ApiIdle

NextBilling ==
    \/ \E c \in Calls, org \in Orgs : Register(c, org)
    \/ \E c \in Calls, org \in Orgs, plan_name \in RequestedPlans : Upgrade(c, org, plan_name)
    \/ \E c \in Calls : AssignLookup(c)
    \/ \E c \in Calls : AssignWrite(c)
    \/ \E c \in Calls, org \in Orgs, immediate \in BOOLEAN : CancelSubscription(c, org, immediate)
    \/ \E c \in Calls, org \in Orgs : StripeCreateSubscription(c, org, "price_456")
    \/ \E c \in Calls, org \in Orgs : WebhookSubscriptionCreated(c, org, "price_789")
    \/ \E c \in Calls : WebhookWrite(c)

SpecBilling == InitBilling /\ [][NextBilling]_vars

\* C12: every organization has at most one row in the subscriptions table, after
\* any sequence and interleaving of register, upgrade, cancel and the operations
\* of the billing provider that create a subscription.
AtMostOneSubscription ==
    \A org \in Orgs :
        Cardinality({i \in DOMAIN subscriptions : subscriptions[i].organization_id = org}) <= 1

\* C13: assign_plan with a plan name of free, pro, enterprise returns true, and a
\* usage call that follows it (the row the call looked up still being the
\* organization's first) reports that plan name and the daily cap of that plan;
\* with any other plan name assign_plan returns false and the subscriptions table
\* is left as it was.
AssignThenUsage ==
    [][\A c \in Calls :
          LET call == calls[c]
              p == call.plan_name
              cap == IF p = "pro" THEN ProMaxLeadsPerDay
                     ELSE IF p = "enterprise" THEN EnterpriseMaxLeadsPerDay
                     ELSE FreeMaxLeadsPerDay
          IN  /\ (call.op \in {"register", "upgrade"} /\ call.pc = "lookup"
                  /\ calls'[c].pc # "lookup") =>
                    IF p \in {"free", "pro", "enterprise"}
                    THEN calls'[c].pc = "write"
                    ELSE /\ calls'[c].pc = "done"
                         /\ calls'[c].result = "false"
                         /\ subscriptions' = subscriptions
              /\ (call.op \in {"register", "upgrade"} /\ call.pc = "write"
                  /\ calls'[c].pc = "done") =>
                    /\ calls'[c].result = "true"
                    /\ (call.found = 0 => ~has_subscription(subscriptions, call.org)) =>
                          /\ get_organization_usage(subscriptions', call.org).plan_name = p
                          /\ get_organization_usage(subscriptions', call.org).max_leads_per_day
                                = cap
                          /\ first_subscription(subscriptions', call.org).status = "active"]_vars

\* C13 witness: after register, an upgrade to enterprise updated the row of the
\* organization and usage reports enterprise; an upgrade to "gold" returned false.
UpgradedToEnterprise ==
    \E c, d \in Calls :
        /\ calls[c].op = "upgrade"
        /\ calls[c].plan_name = "enterprise"
        /\ calls[c].result = "true"
        /\ calls[c].found # 0
        /\ calls[d].op = "upgrade"
        /\ calls[d].plan_name = "gold"
        /\ calls[d].result = "false"
        /\ get_organization_usage(subscriptions, calls[c].org).plan_name = "enterprise"

\* C14: cancel_subscription of an organization without a subscription returns false
\* and changes nothing.  Otherwise it returns true and writes the organization's
\* subscription only: immediate=true sets its status to canceled, immediate=false
\* sets cancel_at_period_end and leaves the status active.  plan_name keeps its
\* value in every case.
CancelSetsStatus ==
    [][\A c \in Calls :
          (calls[c].pc = "idle" /\ calls'[c].op = "cancel") =>
              LET org == calls'[c].org
                  i == first_position(subscriptions, org)
              IN  IF i = 0
                  THEN /\ calls'[c].result = "false"
                       /\ subscriptions' = subscriptions
                  ELSE /\ calls'[c].result = "true"
                       /\ Len(subscriptions') = Len(subscriptions)
                       /\ \A j \in DOMAIN subscriptions : j # i => subscriptions'[j] = subscriptions[j]
                       /\ subscriptions'[i].organization_id = org
                       /\ subscriptions'[i].plan_name = subscriptions[i].plan_name
                       /\ IF calls'[c].immediate
                          THEN subscriptions'[i].status = "canceled"
                          ELSE /\ subscriptions'[i].cancel_at_period_end
                               /\ subscriptions'[i].status = "active"]_vars

\* C14 witness: an organization on the pro plan cancelled immediately; its
\* subscription is canceled and still names the pro plan.
ProCanceledImmediately ==
    \E c \in Calls :
        /\ calls[c].op = "cancel"
        /\ calls[c].immediate
        /\ calls[c].result = "true"
        /\ subscriptions[calls[c].found].status = "canceled"
        /\ subscriptions[calls[c].found].plan_name = "pro"

\* C15: every Lead has founded_year null or in 1900..2030, employees null or one
\* of the five size ranges, and revenue_band null or one of the five bands, after
\* any sequence of pipeline jobs and PUT /leads/{id} updates.
EnumFieldsValid ==
    \A id \in DOMAIN leads :
        /\ leads[id].founded_year = 0 \/ leads[id].founded_year \in 1900..2030
        /\ leads[id].employees \in {NULL, "1-10", "11-50", "51-200", "201-500", "500+"}
        /\ leads[id].revenue_band
              \in {NULL, "$0-1M", "$1M-10M", "$10M-50M", "$50M-100M", "$100M+"}

(***************************************************************************)
(* The confidences of results and leads.  A call of scrape on any site of  *)
(* the model, or a call of enrich_lead_data on any arguments of the model, *)
(* followed by the merge of the result into a newly created Lead as the    *)
(* job does it.                                                            *)
(***************************************************************************)
\* orchestrator.py lines 129-158 on the result scrape returned
MergeReturned ==
    /\ scrapePc = "done"
    /\ returned.success
    /\ leads' = [leads EXCEPT ![1] = update_lead(@, scrape_update_data(returned))]
    /\ scrapePc' = "merged"
    /\ UNCHANGED <<site, executed, returned, scrapingLogs, enrichmentLogs, aiEnv, job,
                   lastRun, prevRun>>
    /\ UNCHANGED <<quotaVars, billingVars, apiVars, enrichVars>>

\* orchestrator.py lines 182-227 on the result enrich_lead_data returned
MergeEnriched ==
    /\ enrichPc = "done"
    /\ enriched.success
    /\ leads' = [leads EXCEPT ![1] = update_lead(@, enrichment_update_data(enriched))]
    /\ enrichPc' = "merged"
    /\ UNCHANGED <<enrichIn, invoked, enriched, scrapingLogs, enrichmentLogs, aiEnv, job,
                   lastRun, prevRun>>
    /\ UNCHANGED <<quotaVars, billingVars, apiVars, scrapeVars>>

InitConfidence ==
    /\ QuotaIdle
    /\ subscriptions = <<>>
    /\ calls = <<>>
    /\ ApiIdle
    /\ leads = [id \in LeadIds |-> NewLead(1)]
    /\ scrapingLogs = <<>>
    /\ enrichmentLogs = <<>>
    /\ aiEnv = {}
    /\ job = <<>>
    /\ lastRun = <<>>
    /\ prevRun = <<>>
    /\ \/ /\ EnrichIdle
          /\ site \in Sites
          /\ scrapePc = "tier1"
          /\ executed = <<>>
          /\ returned = NoResult
       \/ /\ ScrapeIdle
          /\ enrichIn \in [lead : EnrichLeads, scraped_data : EnrichScraped, llm : LlmReplies]
          /\ enrichPc = "heuristic"
          /\ invoked = <<>>
          /\ enriched = NoEnrichment

NextConfidence ==
    \/ ScrapeJsonLd
    \/ ScrapeMeta
    \/ ScrapePlaywright
    \/ MergeReturned
    \/ EnrichHeuristic
    \/ EnrichExternalApi
    \/ EnrichLlm
    \/ MergeEnriched

SpecConfidence == InitConfidence /\ [][NextConfidence]_vars

\* C16: every confidence lies in [0, 1]: that of the result of every tier run
\* (JSON-LD, meta, headless, plain-request fallback) and of the result scrape
\* returns, that of the result of every strategy (heuristic at most 0.9, LLM at
\* most 0.8), and scrape_confidence, email_confidence and enrichment_confidence
\* of the Lead at creation and after the results were merged into it.
ConfidencesInUnitInterval ==
    /\ \A i \in DOMAIN executed : executed[i].result.confidence \in 0..1000
    /\ scrapePc # "idle" => returned.confidence \in 0..1000
    /\ \A i \in DOMAIN invoked :
          /\ invoked[i].result.confidence \in 0..1000
          /\ invoked[i].strategy = "heuristic" => invoked[i].result.confidence <= 900
          /\ invoked[i].strategy = "llm" => invoked[i].result.confidence <= 800
    /\ enrichPc # "idle" => enriched.confidence \in 0..1000
    /\ \A id \in DOMAIN leads :
          /\ leads[id].scrape_confidence \in 0..1000
          /\ leads[id].email_confidence \in 0..1000
          /\ leads[id].enrichment_confidence \in 0..1000

\* C16 witness: the headless tier found every field it looks for (the sum of its
\* bonuses is 1.2) and its result, at confidence 1.0, was merged into the Lead.
HeadlessResultAtCap ==
    /\ scrapePc = "merged"
    /\ returned.method = "playwright"
    /\ returned.confidence = 1000
    /\ leads[1].company_name = "Acme"

(***************************************************************************)
(* score_lead on a family of leads: the scoring step of a job whose lead   *)
(* has any of the values below.                                            *)
(***************************************************************************)
\* confidences in thousandths: 0, just below the threshold 0.6, the threshold,
\* 0.8 and 1
ConfidenceGrid == {0, 599, 600, 800, 1000}

ScoreLeads ==
    { [NewLead(1) EXCEPT !.industry = industry, !.employees = employees,
                         !.linkedin_url = linkedin_url, !.email_confidence = email_c,
                         !.scrape_confidence = scrape_c, !.enrichment_confidence = enrichment_c] :
        industry \in {NULL, "Software", "Consulting"},
        employees \in {NULL, "51-200", "500+"},
        linkedin_url \in {NULL, "linkedin.com/acme"},
        email_c \in ConfidenceGrid, scrape_c \in ConfidenceGrid,
        enrichment_c \in ConfidenceGrid }

InitScore ==
    /\ QuotaIdle
    /\ ScrapeIdle
    /\ EnrichIdle
    /\ subscriptions = <<>>
    /\ calls = <<>>
    /\ ApiIdle
    /\ \E lead \in ScoreLeads : leads = [id \in LeadIds |-> lead]
    /\ scrapingLogs = <<>>
    /\ enrichmentLogs = <<>>
    /\ aiEnv = {}
    /\ job = [IdleJob EXCEPT !.pc = "score", !.run = 1, !.lead_id = 1, !.attempts = 1,
                             !.sessions = {"db"}]
    /\ lastRun = NoRun
    /\ prevRun = NoRun

NextScore == ScoreLead

SpecScore == InitScore /\ [][NextScore]_vars

\* C17: for a lead with confidences in [0, 1] the total score is the smaller of
\* 100 and the sum of the six criterion scores (25 for a preferred industry, 20
\* for a preferred size, 15 times each confidence that is at least 0.6, 10 for a
\* LinkedIn url), it lies in 0..100, the label is Hot Lead from 80, Warm Lead from
\* 60, Cold Lead from 40 and Disqualified below, and raising one confidence with
\* the other inputs fixed never lowers the total score.
ScoreBandsAndMonotone ==
    LET lead == leads[1]
        Quality(c) == IF c >= 600 THEN 15 * c ELSE 0
        sum == (IF lead.industry \in {"Software", "SaaS", "Technology", "Fintech",
                                      "Healthcare", "E-commerce", "AI", "Data"}
                THEN 25000 ELSE 0)
               + (IF lead.employees \in {"11-50", "51-200", "201-500"} THEN 20000 ELSE 0)
               + Quality(lead.email_confidence) + Quality(lead.scrape_confidence)
               + Quality(lead.enrichment_confidence)
               + (IF lead.linkedin_url # NULL THEN 10000 ELSE 0)
        total == job.score_result.total_score
        label == job.score_result.qualification_label
    IN  /\ job.score_result # NoScore =>
              /\ total = IF sum <= 100000 THEN sum ELSE 100000
              /\ total \in 0..100000
              /\ label = "Hot Lead" <=> total >= 80000
              /\ label = "Warm Lead" <=> (60000 <= total /\ total < 80000)
              /\ label = "Cold Lead" <=> (40000 <= total /\ total < 60000)
              /\ label = "Disqualified" <=> total < 40000
        /\ \A c \in ConfidenceGrid :
              /\ c >= lead.email_confidence =>
                    score_lead([lead EXCEPT !.email_confidence = c]).total_score
                       >= score_lead(lead).total_score
              /\ c >= lead.scrape_confidence =>
                    score_lead([lead EXCEPT !.scrape_confidence = c]).total_score
                       >= score_lead(lead).total_score
              /\ c >= lead.enrichment_confidence =>
                    score_lead([lead EXCEPT !.enrichment_confidence = c]).total_score
                       >= score_lead(lead).total_score

\* C17 witness: a lead of a preferred industry with a LinkedIn url and all three
\* confidences at 1 was scored 80 exactly and labelled Hot Lead.
ScoredEightyHot ==
    /\ job.pc = "gate2"
    /\ leads[1].employees = NULL
    /\ job.score_result.total_score = 80000
    /\ job.score_result.qualification_label = "Hot Lead"

(***************************************************************************)
(* generate_message on a family of leads: the message step of a job whose  *)
(* lead has any of the values below, with and without a usable credential. *)
(***************************************************************************)
MessageLeads ==
    { [NewLead(1) EXCEPT !.company_name = company_name, !.industry = industry,
                         !.about_text = about_text, !.contact_name = contact_name,
                         !.employees = employees] :
        company_name \in {NULL, "", "Acme Software"},
        industry \in {NULL, "Software"},
        about_text \in {NULL, "d_est2009", "t_ceo"},
        contact_name \in {NULL, "Jane Doe"},
        employees \in {NULL, "51-200"} }

InitMessage ==
    /\ QuotaIdle
    /\ ScrapeIdle
    /\ EnrichIdle
    /\ subscriptions = <<NewSubscription(1, "pro")>>
    /\ calls = <<>>
    /\ ApiIdle
    /\ \E lead \in MessageLeads : leads = [id \in LeadIds |-> lead]
    /\ scrapingLogs = <<>>
    /\ enrichmentLogs = <<>>
    /\ aiEnv \in AiEnvs
    /\ job = [IdleJob EXCEPT !.pc = "gate2", !.run = 1, !.lead_id = 1, !.attempts = 1,
                             !.sessions = {"db"}]
    /\ lastRun = NoRun
    /\ prevRun = NoRun

NextMessage ==
    \/ \E reply \in MessageReplies : GenerateMessage(reply)
    \/ PersistMessage

SpecMessage == InitMessage /\ [][NextMessage]_vars

\* C18: whenever the Messenger was called on a lead without a company_name, the
\* message it returned is the website-only template, whatever the other fields
\* of the lead and whatever the model provider answered.
WebsiteOnlyWithoutCompanyName ==
    (job.messenger_invoked /\ ~Truthy(leads[job.lead_id].company_name))
        => job.outreach_message.kind = "website_only_template"

(***************************************************************************)
(* The waterfall on descriptions that state a founded year, abbreviated    *)
(* ('05, '49, '50, '99) or in full (2014).                                 *)
(***************************************************************************)
FoundedDescriptions == {"d_est", "d_founded49", "d_founded50", "d_founded99", "d_saas"}

FoundedScraped ==
    { [NoData EXCEPT !.keys = {"name", "description"}, !.description = description] :
        description \in FoundedDescriptions }

FoundedLeads == { NewLead(1), [NewLead(1) EXCEPT !.company_name = "Acme"] }

InitFounded ==
    /\ QuotaIdle
    /\ subscriptions = <<>>
    /\ calls = <<>>
    /\ ApiIdle
    /\ ScrapeIdle
    /\ PipelineIdle
    /\ enrichIn \in [lead : FoundedLeads, scraped_data : FoundedScraped, llm : LlmReplies]
    /\ enrichPc = "heuristic"
    /\ invoked = <<>>
    /\ enriched = NoEnrichment

SpecFounded == InitFounded /\ [][NextEnrich]_vars

\* C19: the founded year the heuristic strategy extracts from a description
\* that states a year 'NN is 20NN when NN < 50 and 19NN otherwise, a year
\* written in full is itself, and the year is returned only when it lies in
\* 1900..2030 (0 stands for None).
TwoDigitYearExpansion ==
    \A i \in DOMAIN invoked :
        invoked[i].strategy = "heuristic" =>
            LET year_str == TextFeatures(enrichIn.scraped_data.description).year_str
                expanded == IF ~year_str.quote THEN year_str.digits
                            ELSE IF year_str.digits < 50 THEN 2000 + year_str.digits
                            ELSE 1900 + year_str.digits
            IN  invoked[i].result.data.founded_year
                   = IF 1900 <= expanded /\ expanded <= 2030 THEN expanded ELSE 0

\* C20: with no model credential, the heuristic strategy applied to a lead
\* without fields and the scraped description "We are a 120-person SaaS platform
\* founded in 2014" returns industry Software, employees 51-200, revenue band
\* $10M-50M and founded year 2014 with a confidence above 0.7 that is the sum of
\* the bonuses of the fields determined, capped at 0.9, and the waterfall
\* returns that result.
ScenarioHeuristicAccepted ==
    (/\ enrichIn.lead = NewLead(1)
     /\ enrichIn.scraped_data
           = [NoData EXCEPT !.keys = {"name", "description"}, !.description = "d_saas"]
     /\ ~enrichIn.llm.key
     /\ Len(invoked) >= 1)
        => LET result == invoked[1].result
               keys == result.data.keys
           IN  /\ invoked[1].strategy = "heuristic"
               /\ result.success
               /\ result.data.industry = "Software"
               /\ result.data.employees = "51-200"
               /\ result.data.revenue_band = "$10M-50M"
               /\ result.data.founded_year = 2014
               /\ result.confidence > 700
               /\ result.confidence
                     = Min((IF "industry" \in keys THEN 300 ELSE 0)
                           + (IF "employees" \in keys THEN 200 ELSE 0)
                           + (IF "revenue_band" \in keys THEN 100 ELSE 0)
                           + (IF "contact_name" \in keys THEN 150 ELSE 0)
                           + (IF "contact_title" \in keys THEN 100 ELSE 0)
                           + (IF "founded_year" \in keys THEN 150 ELSE 0), 900)
               /\ enriched = result

\* C21: whenever scrape reached the headless tier and the browser could not be
\* launched, the result returned is that of the plain-request fallback: its
\* method is requests, and when it succeeded its confidence is the headless
\* confidence of the fallback's data times 0.8.
FallbackWhenBrowserCannotLaunch ==
    (scrapePc = "done" /\ Len(executed) = 3 /\ site.browser.launch # "ok")
        => /\ returned.method = "requests"
           /\ returned.success =>
                 returned.confidence
                    = (calculate_playwright_confidence(site.browser.fallback.data) * 8) \div 10

(***************************************************************************)
(* Authentication (api/endpoints/auth.py, auth/security.py)                *)
(*                                                                         *)
(* A JWT is recorded by its claims sub and type, whether its signature     *)
(* verifies under SECRET_KEY and whether its exp has passed.  A handler    *)
(* answers one request in one step; the caller reads the response before   *)
(* the next request is made.                                               *)
(***************************************************************************)
NumUsers == 2

UserIds == 1..NumUsers

User(org, is_active) == [organization_id |-> org, is_active |-> is_active]

Token(sub, type, signed, expired) ==
    [sub |-> sub, type |-> type, signed |-> signed, expired |-> expired]

NoToken == Token(0, "none", FALSE, FALSE)

\* create_access_token, create_refresh_token
create_access_token(sub) == Token(sub, "access", TRUE, FALSE)
create_refresh_token(sub) == Token(sub, "refresh", TRUE, FALSE)

\* tokens not made with SECRET_KEY
ForgedTokens == {Token(1, "refresh", FALSE, FALSE), Token(1, "access", FALSE, FALSE)}

ApiResponse(endpoint, arg, status, body) ==
    [endpoint |-> endpoint, arg |-> arg, status |-> status, body |-> body]

NoResponse == ApiResponse("none", <<>>, 0, <<>>)

\* the caller reads the response
Receive ==
    /\ response # NoResponse
    /\ response' = NoResponse
    /\ UNCHANGED <<users, tokens>>
    /\ UNCHANGED <<quotaVars, billingVars, scrapeVars, enrichVars, pipelineVars>>

\* verify_token: jwt.decode raises on a bad signature or a passed exp; a payload
\* without sub or with a type other than access raises the 401
verify_token(token) ==
    IF ~token.signed \/ token.expired THEN [raised |-> TRUE, user_id |-> 0, token_type |-> "none"]
    ELSE IF token.sub = 0 \/ token.type # "access"
    THEN [raised |-> TRUE, user_id |-> 0, token_type |-> "none"]
    ELSE [raised |-> FALSE, user_id |-> token.sub, token_type |-> token.type]

\* the status and body of POST /refresh: every exception raised in the try block,
\* the handler's own 401s included, is answered 401
refresh_token(token, usersTable) ==
    LET token_data == verify_token(token) IN
    IF token_data.raised THEN [status |-> 401, body |-> NoToken]
    ELSE IF token_data.token_type # "refresh" THEN [status |-> 401, body |-> NoToken]
    ELSE IF token_data.user_id \notin DOMAIN usersTable
            \/ ~usersTable[token_data.user_id].is_active
    THEN [status |-> 401, body |-> NoToken]
    ELSE [status |-> 200, body |-> create_access_token(token_data.user_id)]

\* POST /login with the right password
LoginUser(u) ==
    /\ response = NoResponse
    /\ IF users[u].is_active
       THEN /\ tokens' = tokens \cup {create_access_token(u), create_refresh_token(u)}
            /\ response' = ApiResponse("login", NoToken, 200, create_refresh_token(u))
       ELSE /\ response' = ApiResponse("login", NoToken, 401, NoToken)
            /\ UNCHANGED tokens
    /\ UNCHANGED users
    /\ UNCHANGED <<quotaVars, billingVars, scrapeVars, enrichVars, pipelineVars>>

\* POST /refresh
RefreshToken(token) ==
    LET answer == refresh_token(token, users) IN
    /\ response = NoResponse
    /\ response' = ApiResponse("refresh", token, answer.status, answer.body)
    /\ tokens' = IF answer.status = 200 THEN tokens \cup {answer.body} ELSE tokens
    /\ UNCHANGED users
    /\ UNCHANGED <<quotaVars, billingVars, scrapeVars, enrichVars, pipelineVars>>

\* the exp of a token passes
Expire(token) ==
    /\ ~token.expired
    /\ tokens' = (tokens \ {token}) \cup {[token EXCEPT !.expired = TRUE]}
    /\ UNCHANGED <<users, response>>
    /\ UNCHANGED <<quotaVars, billingVars, scrapeVars, enrichVars, pipelineVars>>

\* crud.update_user with is_active
UpdateUser(u, is_active) ==
    /\ users[u].is_active # is_active
    /\ users' = [users EXCEPT ![u].is_active = is_active]
    /\ UNCHANGED <<tokens, response>>
    /\ UNCHANGED <<quotaVars, billingVars, scrapeVars, enrichVars, pipelineVars>>

InitAuth ==
    /\ QuotaIdle
    /\ ScrapeIdle
    /\ EnrichIdle
    /\ PipelineIdle
    /\ subscriptions = <<>>
    /\ calls = <<>>
    /\ users = [u \in UserIds |-> User(1, TRUE)]
    /\ tokens = {}
    /\ response = NoResponse

NextAuth ==
    \/ \E u \in UserIds : LoginUser(u)
    \/ \E token \in tokens \cup ForgedTokens : RefreshToken(token)
    \/ Receive
    \/ \E token \in tokens : Expire(token)
    \/ \E u \in UserIds, is_active \in BOOLEAN : UpdateUser(u, is_active)

SpecAuth == InitAuth /\ [][NextAuth]_vars

\* C22: POST /refresh called with an unexpired refresh token issued by /login
\* for a user who is active answers 200 with a new access token of that user;
\* called with an access token, a token whose signature or exp does not verify,
\* or a token of an inactive or missing user it answers 401.
RefreshIssuesAccessToken ==
    [][(response = NoResponse /\ response'.endpoint = "refresh")
          => LET token == response'.arg IN
             IF /\ token.signed /\ ~token.expired /\ token.type = "refresh"
                /\ token.sub \in DOMAIN users /\ users[token.sub].is_active
             THEN response'.status = 200
                  /\ response'.body = Token(token.sub, "access", TRUE, FALSE)
             ELSE response'.status = 401]_vars

(***************************************************************************)
(* The lead endpoints called by two organizations (api/endpoints/leads.py) *)
(*                                                                         *)
(* Lead 1 belongs to organization 1 and lead 2 to organization 2.  The     *)
(* caller is given by the organization of its user.  A response is         *)
(* recorded with the request it answers (arg), its status and the Lead     *)
(* rows of its body.                                                       *)
(***************************************************************************)
TenantOrgs == {1, 2}

TenantLeadIds == {1, 2}

\* the organization whose user writes and processes; the other one only reads
Writers == {1}

\* the calls of POST /leads/{id}/process that reach the job
MaxProcessCalls == 1

LeadArg(lead_id, org) == [lead_id |-> lead_id, org |-> org]

ApiFrame == UNCHANGED <<users, tokens, quotaVars, billingVars, scrapeVars, enrichVars,
                        scrapingLogs, enrichmentLogs, aiEnv, job, lastRun, prevRun>>

\* mutant of lead_access: the organization of the lead is not compared
lead_access_any_tenant(leadsTable, lead_id, org) ==
    IF lead_id \notin DOMAIN leadsTable THEN 404 ELSE 200

\* the status of the lookup and the tenant check the four /leads/{id} handlers share
lead_access(leadsTable, lead_id, org) ==
    IF lead_id \notin DOMAIN leadsTable THEN 404
    ELSE IF leadsTable[lead_id].organization_id # org THEN 403
    ELSE 200

\* get_leads_by_organization: the rows of the organization, in id order
get_leads_by_organization(leadsTable, organization_id) ==
    SelectSeq([i \in 1..Len(leadsTable) |-> leadsTable[i]],
              LAMBDA row : row.organization_id = organization_id)

\* read_leads: GET /leads/
ReadLeads(org) ==
    /\ response = NoResponse
    /\ response' = ApiResponse("read_leads", LeadArg(0, org), 200,
                               get_leads_by_organization(leads, org))
    /\ UNCHANGED leads
    /\ ApiFrame

\* read_lead: GET /leads/{id}
ReadLead(lead_id, org) ==
    LET status == lead_access(leads, lead_id, org) IN
    /\ response = NoResponse
    /\ response' = ApiResponse("read_lead", LeadArg(lead_id, org), status,
                               IF status = 200 THEN <<leads[lead_id]>> ELSE <<>>)
    /\ UNCHANGED leads
    /\ ApiFrame

\* update_lead_endpoint: PUT /leads/{id}
PutLead(lead_id, org, lead_update) ==
    LET status == lead_access(leads, lead_id, org) IN
    /\ response = NoResponse
    /\ leads' = IF status = 200
                THEN [leads EXCEPT ![lead_id] = update_lead(@, lead_update)]
                ELSE leads
    /\ response' = ApiResponse("update_lead", LeadArg(lead_id, org), status,
                               IF status = 200 THEN <<leads'[lead_id]>> ELSE <<>>)
    /\ ApiFrame

\* delete_lead_endpoint: DELETE /leads/{id}
DeleteLead(lead_id, org) ==
    LET status == lead_access(leads, lead_id, org) IN
    /\ response = NoResponse
    /\ leads' = IF status = 200 THEN [leads EXCEPT ![lead_id].is_active = FALSE] ELSE leads
    /\ response' = ApiResponse("delete_lead", LeadArg(lead_id, org), status, <<>>)
    /\ ApiFrame

\* process_lead_now, lines 221-250: the lookup, the tenant check and the AI gate;
\* then the handler calls process_lead_async and awaits it: the job runs
\* (process_lead_task lines 58-66) with the handler waiting for its result
ProcessLeadNow(lead_id, org) ==
    LET status == IF lead_access(leads, lead_id, org) # 200
                  THEN lead_access(leads, lead_id, org)
                  ELSE IF ~can_use_ai_features(subscriptions, aiEnv, org) THEN 403
                  ELSE 200
    IN  /\ response = NoResponse
        /\ job.pc \in {"idle", "done"}
        /\ ~job.awaited
        /\ job.run < MaxProcessCalls
        /\ IF status = 200
           THEN /\ job' = [IdleJob EXCEPT
                             !.run = job.run + 1, !.lead_id = lead_id, !.attempts = 1,
                             !.sessions = {"db"},
                             !.logs_before = <<Len(scrapingLogs), Len(enrichmentLogs)>>,
                             !.pc = "scrape", !.before = leads[lead_id], !.awaited = TRUE]
                /\ UNCHANGED response
           ELSE /\ response' = ApiResponse("process", LeadArg(lead_id, org), status, <<>>)
                /\ UNCHANGED job
        /\ UNCHANGED <<users, tokens, quotaVars, billingVars, scrapeVars, enrichVars, leads,
                       scrapingLogs, enrichmentLogs, aiEnv, lastRun, prevRun>>

\* process_lead_now, lines 250-253: the awaited job returned or raised; an
\* exception of the job leaves the handler and is answered 500
ProcessLeadNowReturn ==
    /\ response = NoResponse
    /\ job.awaited
    /\ job.pc = "done"
    /\ response' = ApiResponse("process",
                               LeadArg(job.lead_id, leads[job.lead_id].organization_id),
                               IF job.outcome = "raised" THEN 500 ELSE 200, <<>>)
    /\ job' = [job EXCEPT !.awaited = FALSE]
    /\ UNCHANGED <<users, tokens, quotaVars, billingVars, scrapeVars, enrichVars, leads,
                   scrapingLogs, enrichmentLogs, aiEnv, lastRun, prevRun>>

\* the site of the leads of this model
ApiSites == {Site(Unreachable, MetaPage, BrowserDown)}

InitApi ==
    /\ dailyLeads = <<>>
    /\ pendingJobs = {}
    /\ req = <<IdleReq>>
    /\ ScrapeIdle
    /\ EnrichIdle
    /\ subscriptions = <<NewSubscription(1, "pro"), NewSubscription(2, "pro")>>
    /\ calls = <<>>
    /\ users = <<>>
    /\ tokens = {}
    /\ response = NoResponse
    /\ leads = <<NewLead(1), NewLead(2)>>
    /\ scrapingLogs = <<>>
    /\ enrichmentLogs = <<>>
    /\ aiEnv \in AiEnvs
    /\ job = IdleJob
    /\ lastRun = NoRun
    /\ prevRun = NoRun

NextApi ==
    \/ \E org \in TenantOrgs : ReadLeads(org)
    \/ \E lead_id \in TenantLeadIds, org \in TenantOrgs : ReadLead(lead_id, org)
    \/ \E lead_id \in TenantLeadIds, org \in Writers, lead_update \in PutBodies :
          PutLead(lead_id, org, lead_update)
    \/ \E lead_id \in TenantLeadIds, org \in Writers : DeleteLead(lead_id, org)
    \/ \E lead_id \in TenantLeadIds, org \in Writers : ProcessLeadNow(lead_id, org)
    \/ ProcessLeadNowReturn
    \/ \E r \in DOMAIN req, org \in Writers, leadOrg \in TenantOrgs :
          PostLeadsSingle(r, org, leadOrg, TRUE)
    \/ \E r \in DOMAIN req : SingleCanCreateLead(r)
    \/ \E r \in DOMAIN req : SingleCreateLead(r)
    \/ Receive
    \/ \E s \in ApiSites : ScrapeWebsite(s)
    \/ LogScrape
    \/ MergeScrape
    \/ EnrichLead(FintechReply)
    \/ LogEnrichment
    \/ MergeEnrichment
    \/ ScoreLead
    \/ GenerateMessage(MessageReply(TRUE, "text", TRUE))
    \/ PersistMessage
    \/ Commit
    \/ RaiseInJob

SpecApi == InitApi /\ [][NextApi]_vars

\* C23: a request for a lead of another organization than the caller's to GET,
\* PUT, DELETE /leads/{id} or POST /leads/{id}/process is answered 403 with no
\* Lead in the body, changes no Lead and starts no job; GET /leads/ lists only
\* Leads of the caller's organization; POST /leads/single for another
\* organization is answered 403 and creates no Lead; and no step changes a Lead
\* of the organization that only reads, or runs a job on it, so what that
\* organization reads of its own Leads never changes.
TenantScoped ==
    [][/\ (/\ response = NoResponse
           /\ response'.endpoint \in {"read_lead", "update_lead", "delete_lead", "process"}
           /\ response'.arg.lead_id \in DOMAIN leads
           /\ leads[response'.arg.lead_id].organization_id # response'.arg.org)
             => /\ response'.status = 403
                /\ response'.body = <<>>
                /\ leads' = leads
                /\ job' = job
       /\ (response = NoResponse /\ response'.endpoint = "read_leads")
             => /\ \A i \in DOMAIN response'.body :
                      response'.body[i].organization_id = response'.arg.org
                /\ response'.arg.org \notin Writers => response'.body = <<NewLead(2)>>
       /\ \A r \in DOMAIN req :
             req'[r].leadOrg # req'[r].org
                => req'[r].status = 403 /\ req'[r].created = {} /\ dailyLeads' = dailyLeads
       /\ \A i \in DOMAIN dailyLeads' : dailyLeads'[i] \in Writers
       /\ \A id \in DOMAIN leads :
             leads[id].organization_id \notin Writers
                => leads'[id] = leads[id] /\ job'.lead_id # id]_vars

\* C23 witness: the writing organization has updated, deleted and processed its
\* own lead, and the other organization reads the list of its leads.
OtherOrganizationReadsItsLeads ==
    /\ response.endpoint = "read_leads"
    /\ response.arg.org = 2
    /\ ~leads[1].is_active
    /\ leads[1].founded_year = 1800
    /\ job.pc = "done" /\ job.outcome = "success" /\ job.lead_id = 1
    /\ leads[2] = NewLead(2)

\* C24: no handler waits for pipeline work.  A creation request answered 200 has
\* handed its jobs to the background tasks, and while a call of POST
\* /leads/{id}/process has not been answered its job has run no stage; the
\* answer of the process handler is never the error of a failed job.
HandlersOnlyEnqueue ==
    /\ \A r \in DOMAIN req : req[r].status = 200 => req[r].created \subseteq pendingJobs
    /\ job.awaited => job.pc = "scrape"
    /\ response.endpoint = "process" => response.status \in {200, 403, 404}

(***************************************************************************)
(* The order of the stages of one job and the durability of their writes   *)
(* (orchestrator.py 58-287; crud.py 154-162, 289-336)                      *)
(***************************************************************************)
\* the position of a stage in the body of the try block
StageRank(pc) ==
    LET order == <<"scrape", "log_scrape", "merge_scrape", "gate1", "log_enrich",
                   "merge_enrich", "score", "gate2", "persist_message", "commit">>
    IN  CHOOSE i \in 1..Len(order) : order[i] = pc

\* C25: within one job the stages run in the order load, scrape, enrich, score,
\* message, commit; the ScrapingLog row and the EnrichmentLog row of the job are in
\* their tables from the end of their stage on, the fields that update_lead merged
\* from the scraping result stay in the Lead row, and a job that raises in a later stage leaves the
\* rows of both log tables and the Lead row as the completed stages wrote them.
StagesInOrderAndDurable ==
    [][/\ (job.pc \in {"idle", "done"} /\ job'.pc \in TryStages) => job'.pc = "scrape"
       /\ (job.pc \in TryStages /\ job'.pc \in TryStages)
             => StageRank(job'.pc) > StageRank(job.pc)
       /\ (job.pc \in TryStages /\ StageRank(job.pc) > StageRank("log_scrape"))
             => /\ Len(scrapingLogs) = job.logs_before[1] + 1
                /\ scrapingLogs[Len(scrapingLogs)] = ScrapingLog(job.lead_id, job.scraping_result)
                /\ scrapingLogs' = scrapingLogs
       /\ (job.pc \in TryStages /\ StageRank(job.pc) > StageRank("log_enrich")
                                /\ job.enrichment_result.success)
             => /\ Len(enrichmentLogs) = job.logs_before[2] + 1
                /\ enrichmentLogs[Len(enrichmentLogs)]
                      = LeadEnrichmentLog(job.lead_id, job.enrichment_result)
                /\ enrichmentLogs' = enrichmentLogs
       /\ (job.pc \in TryStages /\ StageRank(job.pc) > StageRank("merge_scrape")
                                /\ job.scraping_result.success)
             => LET update_data == scrape_update_data(job.scraping_result) IN
                \A k \in DOMAIN update_data \cap LeadUpdateFields :
                    leads'[job.lead_id][k] = update_data[k]
       /\ (job.pc \in TryStages /\ job'.pc = "done" /\ job'.outcome = "raised")
             => /\ leads' = leads
                /\ scrapingLogs' = scrapingLogs
                /\ enrichmentLogs' = enrichmentLogs
                /\ lastRun'.lead = leads[job.lead_id]]_vars

\* a job raised after it wrote both log rows and merged fields into the Lead row
RaisedAfterBothLogs ==
    /\ job.pc = "done"
    /\ job.outcome = "raised"
    /\ Len(scrapingLogs) = job.logs_before[1] + 1
    /\ Len(enrichmentLogs) = job.logs_before[2] + 1
    /\ job.scraping_result.success
    /\ leads[job.lead_id] # job.before

\* C26: when a job has ended (it returned the success result, returned for a
\* missing lead, or raised), every database session it opened is closed.
SessionsClosedOnExit ==
    job.pc = "done" => job.sessions = {}

\* C27: when scrape has returned and the JSON-LD tier or the meta tier succeeded
\* (met its gate or not), the result returned has success = TRUE and carries
\* extracted data.
SuccessfulTierNotDiscarded ==
    (/\ scrapePc = "done"
     /\ \E i \in DOMAIN executed : /\ executed[i].tier \in {"json_ld", "meta"}
                                   /\ executed[i].result.success)
        => returned.success /\ returned.data # NoData

\* C28: the scrape merge of a job never replaces a non-null Lead field with null:
\* each of company_name, about_text, email and phone that was non-null before the
\* merge is non-null after it.
MergeKeepsNonNullFields ==
    [][(job.pc = "merge_scrape" /\ job'.pc = "gate1")
          => \A f \in {"company_name", "about_text", "email", "phone"} :
                leads[job.lead_id][f] # NULL => leads'[job.lead_id][f] # NULL]_vars

(***************************************************************************)
(* A job and assign_plan_to_organization running at the same time          *)
(* (orchestrator.py 160-180 and 243-261; subscription_service.py 86-101    *)
(* and 159-190)                                                            *)
(*                                                                         *)
(* One organization is registered on the default plan and owns the leads.  *)
(* The job runs in the API process or in a worker, POST /billing/upgrade   *)
(* in a request of its own; each can_use_ai check of the job is a query in *)
(* a fresh session, so it reads the subscription row as last committed.    *)
(***************************************************************************)
InitGates ==
    /\ QuotaIdle
    /\ ScrapeIdle
    /\ EnrichIdle
    /\ ApiIdle
    /\ subscriptions = <<NewSubscription(1, DefaultPlan)>>
    /\ calls = [c \in Calls |->
                  IF c = 1
                  THEN [IdleCall EXCEPT !.op = "register", !.org = 1,
                                        !.plan_name = DefaultPlan,
                                        !.pc = "done", !.result = "true"]
                  ELSE IdleCall]
    /\ leads = [id \in LeadIds |-> NewLead(1)]
    /\ scrapingLogs = <<>>
    /\ enrichmentLogs = <<>>
    /\ aiEnv \in AiEnvs
    /\ job = IdleJob
    /\ lastRun = NoRun
    /\ prevRun = NoRun

NextGates ==
    \/ \E lead_id \in LeadIds : StartJob(lead_id)
    \/ \E s \in ApiSites : ScrapeWebsite(s)
    \/ LogScrape
    \/ MergeScrape
    \/ EnrichLead(FintechReply)
    \/ LogEnrichment
    \/ MergeEnrichment
    \/ ScoreLead
    \/ GenerateMessage(MessageReply(TRUE, "text", TRUE))
    \/ PersistMessage
    \/ Commit
    \/ RaiseInJob
    \/ \E c \in Calls, plan_name \in valid_plans : Upgrade(c, 1, plan_name)
    \/ \E c \in Calls : AssignLookup(c)
    \/ \E c \in Calls : AssignWrite(c)

SpecGates == InitGates /\ [][NextGates]_vars

\* C29: within one job the two AI gates make the same decision, also while
\* assign_plan runs for the lead's organization: no job runs the Messenger after
\* skipping the Enricher, and no job that ran the Enricher takes the fixed text of
\* the closed gate as its outreach message.
GatesAgree ==
    /\ (job.gate1 # "unset" /\ job.gate2 # "unset") => job.gate1 = job.gate2
    /\ job.messenger_invoked => job.enricher_invoked
    /\ job.enricher_invoked => job.outreach_message # AiNotAvailableMessage

\* C30: cancel_subscription never reactivates a subscription: a call of it, with
\* immediate true or false, leaves every subscription whose status is canceled
\* with the status canceled.
CancelNeverReactivates ==
    [][\A c \in Calls :
          (calls[c].pc = "idle" /\ calls'[c].op = "cancel")
             => \A i \in DOMAIN subscriptions :
                   subscriptions[i].status = "canceled"
                      => subscriptions'[i].status = "canceled"]_vars

====
